---- MODULE Spec2Model ----
(***************************************************************************)
(* GridCal: compilation of a MultiCircuit into flat arrays                 *)
(* (Engine/Core/DataStructures/circuit_to_data.py) and the CSR power       *)
(* injection kernel (Engine/Simulations/PowerFlow/numba_functions.py).     *)
(*                                                                         *)
(* Numbers.  Voltages are held in hundredths of a per-unit (1.0 = 100),    *)
(* resistances in 1e-4 per-unit (0.1 = 1000), tolerances in percent.       *)
(* Complex numbers are pairs <<re, im>>.                                   *)
(***************************************************************************)
EXTENDS Integers, Sequences, FiniteSets, TLC

\* ------------------------------------------------------------------ bounds
\* Longest device list handed to a per-class builder.
MaxDev == 2
\* Most branches (lines + transformers + converters + DC-lines) of a circuit.
MaxBr == 2
\* Most rows, and most stored nonzeros, of the CSR matrix.
MaxN == 2
MaxNnz == 2
\* Runs of the generator and battery builders over one seed buffer.
MaxRuns == 2

\* --------------------------------------------------------------- constants
\* The "seed not yet set" value of Vbus: `Vbus[i, 0].real == 1.0`.
Sentinel == 100

\* ------------------------------------------------------------ input domains
\* Identities of the buses of the circuit, and one bus object that is not
\* part of circuit.buses (a dangling reference held by a device).
CircuitBuses == {"A", "B"}
DanglingBus == "X"
BusRefs == CircuitBuses \cup {DanglingBus}
\* Dense indices of the buses.
BusIdx == {0, 1}
\* bus_dict: bus identity -> dense index, built once by the caller.
bus_dict == [b \in CircuitBuses |-> IF b = "A" THEN 0 ELSE 1]
\* bus.name, used by the warning text.
BusName(b) == <<"bus", b>>

Vsets == {100, 102, 105}
BusModes == {"PQ", "PV", "REF"}
BranchImpedanceMode == {"Nominal", "Lower", "Upper"}

\* Catalogue of line / DC-line types: R, R_corrected (the device's own
\* temperature correction) and tolerance (percent).
LineTypes ==
  { [R |-> 1000, R_corrected |-> 1200, tolerance |-> 10],
    [R |-> 3000, R_corrected |-> 3300, tolerance |-> 20] }
\* Catalogue of 2-winding transformer types.
TransformerTypes ==
  { [R |-> 400, control_mode |-> "fixed",      vset |-> 101],
    [R |-> 500, control_mode |-> "v_to",       vset |-> 102],
    [R |-> 600, control_mode |-> "power_v_to", vset |-> 105] }
\* Catalogue of converter types.
VscTypes ==
  { [R1 |-> 700, control_mode |-> "type_1_free", Vac_set |-> 103, Vdc_set |-> 104],
    [R1 |-> 800, control_mode |-> "type_1_vac",  Vac_set |-> 103, Vdc_set |-> 104],
    [R1 |-> 900, control_mode |-> "type_2_vdc",  Vac_set |-> 106, Vdc_set |-> 107] }

\* ------------------------------------------------------------------- state
VARIABLES
  builder,                \* the builder function being executed
  pc,                     \* its position: a loop name, "done" or "aborted"
  k,                      \* index of the next device of the running loop
  count,                      \* len() of every device list of the circuit
  circuit,                \* the devices enumerated so far, per device list,
                          \* and the type get_bus_data gave every bus
  apply_temperature,      \* builder argument
  branch_tolerance_mode,  \* builder argument
  Vbus,                   \* shared voltage-seed buffer (complex per bus)
  logger,                 \* shared diagnostic log
  bus_types,              \* shared bus-type buffer
  data,                   \* the container the running builder populates
  result,                 \* containers returned so far, by builder
  error,                  \* the exception that ended the compilation, if any
  run,                    \* which run of the builders over the same buffers this is
  \* calc_power_csr_numba
  n, Yp, Yj, Yx, V, I,    \* arguments: row count, CSR pointers / indices / data, vectors
  n_par,                  \* argument: row count from which the rows run in parallel
  S,                      \* the output vector
  kpc,                    \* "idle", "serial", "parallel" or "returned"
  i, p, s,                \* serial path: row, nonzero cursor, accumulator
  task,                   \* parallel path: per row task, its cursor, accumulator and state
  \* simple_dispatch
  nc,                     \* the NumericalCircuit handed to OpfSimple / the LP helpers
  opf,                    \* the attributes of the OpfSimple instance
  opc,                    \* "idle", "solve", "solved", or the LP helper to run next
  problem,                \* the LpProblem: the restrictions added so far, in order
  nodal_restrictions,     \* the array add_dc_nodal_power_balance returns
  island                  \* index of the next island of its loop

cvars == <<builder, pc, k, count, circuit, apply_temperature, branch_tolerance_mode,
           Vbus, logger, bus_types, data, result, error, run>>

inputs == <<n, Yp, Yj, Yx, V, I, n_par>>
kvars == <<inputs, S, kpc, i, p, s, task>>

ovars == <<nc, opf, opc, problem, nodal_restrictions, island>>

vars == <<cvars, kvars, ovars>>

\* ----------------------------------------------------------------- helpers
Range(f) == {f[x] : x \in DOMAIN f}
NoError == [type |-> "none"]
\* `bus_dict[ref]` raises KeyError when ref is not a key.
Mapped(ref) == ref \in DOMAIN bus_dict
KeyError(fn, idx, ref) == [type |-> "KeyError", builder |-> fn, k |-> idx, key |-> ref]
Zeros(cnt) == [j \in 0 .. cnt - 1 |-> 0]
\* A (rows x nbus) sparse 0/1 matrix, all zero.
ZeroMatrix(rows) == [r \in 0 .. rows - 1 |-> [c \in BusIdx |-> 0]]
\* A (nbus x cols) sparse 0/1 matrix, all zero.
ZeroBusMatrix(cols) == [r \in BusIdx |-> [c \in 0 .. cols - 1 |-> 0]]
\* `C[row, col] = 1` on a sparse matrix.
SetEntry(C, row, col) == [C EXCEPT ![row][col] = 1]
EmptyCircuit ==
  [buses |-> <<>>, loads |-> <<>>, static_generators |-> <<>>, shunts |-> <<>>,
   generators |-> <<>>, batteries |-> <<>>, lines |-> <<>>, transformers2w |-> <<>>,
   vsc_converters |-> <<>>, dc_lines |-> <<>>, hvdc_lines |-> <<>>]
NoCounts ==
  [loads |-> 0, static_generators |-> 0, shunts |-> 0, generators |-> 0, batteries |-> 0, lines |-> 0, transformers2w |-> 0,
   vsc_converters |-> 0, dc_lines |-> 0, hvdc_lines |-> 0]
NoResult == [b \in {} |-> 0]
\* `for k, elm in enumerate(devices)`: the device at index k is one the
\* circuit already showed in an earlier run, or else any device of the class.
DeviceAt(list, idx, class) == IF idx < Len(list) THEN {list[idx + 1]} ELSE class
\* The device list of the circuit, as far as it has been enumerated.
Enumerate(list, idx, elm) == IF idx < Len(list) THEN list ELSE Append(list, elm)
Return(res, fn, container) == [b \in DOMAIN res \cup {fn} |-> IF b = fn THEN container ELSE res[b]]

\* ------------------- get_load_data, get_static_generator_data, get_shunt_data
LoadData(nload) ==
  [load_names |-> Zeros(nload), load_active |-> Zeros(nload), C_bus_load |-> ZeroBusMatrix(nload)]
StaticGeneratorData(nstagen) ==
  [static_generator_names |-> Zeros(nstagen), static_generator_active |-> Zeros(nstagen),
   C_bus_static_generator |-> ZeroBusMatrix(nstagen)]
ShuntData(nshunt) ==
  [shunt_names |-> Zeros(nshunt), shunt_active |-> Zeros(nshunt),
   C_bus_shunt |-> ZeroBusMatrix(nshunt)]

Injections == [name : {"inj"}, bus : BusRefs, active : BOOLEAN]

\* One iteration of the loop of get_load_data.
LoadStep ==
  /\ builder = "get_load_data" /\ pc = "devices" /\ k < count.loads
  /\ \E e \in Injections :
       LET elm == [e EXCEPT !.name = <<"load", k>>] IN
       /\ circuit' = [circuit EXCEPT !.loads = Append(@, elm)]
       /\ IF Mapped(elm.bus)
          THEN LET ib == bus_dict[elm.bus] IN
               /\ data' = [data EXCEPT !.load_names[k] = elm.name,
                                       !.load_active[k] = elm.active,
                                       !.C_bus_load[ib][k] = 1]
               /\ k' = k + 1
               /\ UNCHANGED <<pc, error>>
          ELSE /\ pc' = "aborted"
               /\ error' = KeyError(builder, k, elm.bus)
               /\ UNCHANGED <<data, k>>
  /\ UNCHANGED <<kvars, ovars, run, builder, count, apply_temperature, branch_tolerance_mode,
                 Vbus, logger, bus_types, result>>

\* `return data` of get_load_data.
LoadReturn ==
  /\ builder = "get_load_data" /\ pc = "devices" /\ k = count.loads
  /\ result' = Return(result, builder, data)
  /\ pc' = "done"
  /\ UNCHANGED <<kvars, ovars, run, builder, k, count, circuit, apply_temperature, branch_tolerance_mode,
                 Vbus, logger, bus_types, data, error>>

\* One iteration of the loop of get_static_generator_data.
StaticGeneratorStep ==
  /\ builder = "get_static_generator_data" /\ pc = "devices" /\ k < count.static_generators
  /\ \E e \in Injections :
       LET elm == [e EXCEPT !.name = <<"stagen", k>>] IN
       /\ circuit' = [circuit EXCEPT !.static_generators = Append(@, elm)]
       /\ IF Mapped(elm.bus)
          THEN LET ib == bus_dict[elm.bus] IN
               /\ data' = [data EXCEPT !.static_generator_names[k] = elm.name,
                                       !.static_generator_active[k] = elm.active,
                                       !.C_bus_static_generator[ib][k] = 1]
               /\ k' = k + 1
               /\ UNCHANGED <<pc, error>>
          ELSE /\ pc' = "aborted"
               /\ error' = KeyError(builder, k, elm.bus)
               /\ UNCHANGED <<data, k>>
  /\ UNCHANGED <<kvars, ovars, run, builder, count, apply_temperature, branch_tolerance_mode,
                 Vbus, logger, bus_types, result>>

\* `return data` of get_static_generator_data.
StaticGeneratorReturn ==
  /\ builder = "get_static_generator_data" /\ pc = "devices" /\ k = count.static_generators
  /\ result' = Return(result, builder, data)
  /\ pc' = "done"
  /\ UNCHANGED <<kvars, ovars, run, builder, k, count, circuit, apply_temperature, branch_tolerance_mode,
                 Vbus, logger, bus_types, data, error>>

\* One iteration of the loop of get_shunt_data.
ShuntStep ==
  /\ builder = "get_shunt_data" /\ pc = "devices" /\ k < count.shunts
  /\ \E e \in Injections :
       LET elm == [e EXCEPT !.name = <<"shunt", k>>] IN
       /\ circuit' = [circuit EXCEPT !.shunts = Append(@, elm)]
       /\ IF Mapped(elm.bus)
          THEN LET ib == bus_dict[elm.bus] IN
               /\ data' = [data EXCEPT !.shunt_names[k] = elm.name,
                                       !.shunt_active[k] = elm.active,
                                       !.C_bus_shunt[ib][k] = 1]
               /\ k' = k + 1
               /\ UNCHANGED <<pc, error>>
          ELSE /\ pc' = "aborted"
               /\ error' = KeyError(builder, k, elm.bus)
               /\ UNCHANGED <<data, k>>
  /\ UNCHANGED <<kvars, ovars, run, builder, count, apply_temperature, branch_tolerance_mode,
                 Vbus, logger, bus_types, result>>

\* `return data` of get_shunt_data.
ShuntReturn ==
  /\ builder = "get_shunt_data" /\ pc = "devices" /\ k = count.shunts
  /\ result' = Return(result, builder, data)
  /\ pc' = "done"
  /\ UNCHANGED <<kvars, ovars, run, builder, k, count, circuit, apply_temperature, branch_tolerance_mode,
                 Vbus, logger, bus_types, data, error>>

\* ---------------------------------------------- generator / battery seeding
\* `if Vbus[i, 0].real == 1.0: Vbus[i, :] = complex(elm.Vset, 0)`; the elif
\* branch leaves the buffer alone.
\* Variant: the seed is overwritten whatever it holds.
SeedVbusAlways(Vb, ib, Vset) == [Vb EXCEPT ![ib] = <<Vset, 0>>]
SeedVbus(Vb, ib, Vset) ==
  IF Vb[ib][1] = Sentinel THEN [Vb EXCEPT ![ib] = <<Vset, 0>>] ELSE Vb

\* `elif elm.Vset != Vbus[i, 0]: logger.append(...)`: the warning names the
\* bus, the device's Vset and the current seed.
Warning(b, Vset, seed) == [bus |-> BusName(b), Vset |-> Vset, seed |-> seed]
\* Variant: the warning is not guarded by the sentinel test.
SeedLogAlways(lg, Vb, ib, b, Vset) ==
  IF <<Vset, 0>> # Vb[ib] THEN Append(lg, Warning(b, Vset, Vb[ib])) ELSE lg
SeedLog(lg, Vb, ib, b, Vset) ==
  IF Vb[ib][1] = Sentinel THEN lg
  ELSE IF <<Vset, 0>> # Vb[ib] THEN Append(lg, Warning(b, Vset, Vb[ib]))
  ELSE lg

GeneratorData(ngen) ==
  [generator_names |-> Zeros(ngen), generator_v |-> Zeros(ngen),
   C_bus_gen |-> ZeroBusMatrix(ngen)]
BatteryData(nbatt) ==
  [battery_names |-> Zeros(nbatt), battery_v |-> Zeros(nbatt),
   C_bus_batt |-> ZeroBusMatrix(nbatt)]

Generators == [name : {"gen"}, bus : BusRefs, Vset : Vsets]
Batteries == [name : {"batt"}, bus : BusRefs, Vset : Vsets]

\* One iteration of the loop of get_generator_data.
GeneratorStep ==
  /\ builder = "get_generator_data" /\ pc = "devices" /\ k < count.generators
  /\ \E e \in DeviceAt(circuit.generators, k, Generators) :
       LET elm == [e EXCEPT !.name = <<"gen", k>>] IN
       /\ circuit' = [circuit EXCEPT !.generators = Enumerate(@, k, elm)]
       /\ IF Mapped(elm.bus)
          THEN LET ib == bus_dict[elm.bus] IN
               /\ data' = [data EXCEPT !.generator_names[k] = elm.name,
                                       !.generator_v[k] = elm.Vset,
                                       !.C_bus_gen[ib][k] = 1]
               /\ Vbus' = SeedVbus(Vbus, ib, elm.Vset)
               /\ logger' = SeedLog(logger, Vbus, ib, elm.bus, elm.Vset)
               /\ k' = k + 1
               /\ UNCHANGED <<pc, error>>
          ELSE /\ pc' = "aborted"
               /\ error' = KeyError(builder, k, elm.bus)
               /\ UNCHANGED <<data, Vbus, logger, k>>
  /\ UNCHANGED <<kvars, ovars, run, builder, count, apply_temperature, branch_tolerance_mode, bus_types, result>>

\* `return data` of get_generator_data; the caller goes on to the batteries
\* with the same Vbus and logger.
GeneratorReturn ==
  /\ builder = "get_generator_data" /\ pc = "devices" /\ k = count.generators
  /\ result' = Return(result, builder, data)
  /\ builder' = "get_battery_data"
  /\ data' = BatteryData(count.batteries)
  /\ k' = 0
  /\ UNCHANGED <<kvars, ovars, run, pc, count, circuit, apply_temperature, branch_tolerance_mode,
                 Vbus, logger, bus_types, error>>

\* One iteration of the loop of get_battery_data.
BatteryStep ==
  /\ builder = "get_battery_data" /\ pc = "devices" /\ k < count.batteries
  /\ \E e \in DeviceAt(circuit.batteries, k, Batteries) :
       LET elm == [e EXCEPT !.name = <<"batt", k>>] IN
       /\ circuit' = [circuit EXCEPT !.batteries = Enumerate(@, k, elm)]
       /\ IF Mapped(elm.bus)
          THEN LET ib == bus_dict[elm.bus] IN
               /\ data' = [data EXCEPT !.battery_names[k] = elm.name,
                                       !.battery_v[k] = elm.Vset,
                                       !.C_bus_batt[ib][k] = 1]
               /\ Vbus' = SeedVbus(Vbus, ib, elm.Vset)
               /\ logger' = SeedLog(logger, Vbus, ib, elm.bus, elm.Vset)
               /\ k' = k + 1
               /\ UNCHANGED <<pc, error>>
          ELSE /\ pc' = "aborted"
               /\ error' = KeyError(builder, k, elm.bus)
               /\ UNCHANGED <<data, Vbus, logger, k>>
  /\ UNCHANGED <<kvars, ovars, run, builder, count, apply_temperature, branch_tolerance_mode, bus_types, result>>

\* `return data` of get_battery_data.
BatteryReturn ==
  /\ builder = "get_battery_data" /\ pc = "devices" /\ k = count.batteries
  /\ result' = Return(result, builder, data)
  /\ pc' = "done"
  /\ UNCHANGED <<kvars, ovars, run, builder, k, count, circuit, apply_temperature, branch_tolerance_mode,
                 Vbus, logger, bus_types, data, error>>

\* The caller runs get_generator_data and get_battery_data once more over the
\* same circuit, with the Vbus and logger the earlier run left.
SeedAgain ==
  /\ builder = "get_battery_data" /\ pc = "done" /\ run < MaxRuns
  /\ run' = run + 1
  /\ builder' = "get_generator_data" /\ pc' = "devices" /\ k' = 0
  /\ data' = GeneratorData(count.generators)
  /\ UNCHANGED <<kvars, ovars, count, circuit, apply_temperature, branch_tolerance_mode,
                 Vbus, logger, bus_types, result, error>>

\* ------------------------------------------------- resistance correction
\* `if apply_temperature: R = elm.R_corrected else: R = elm.R`
ResistanceBase(elm, temp) == IF temp THEN elm.R_corrected ELSE elm.R

\* `if mode == Lower: R *= (1 - tol / 100.0) elif mode == Upper: R *= (1 + tol / 100.0)`
\* (exact on the catalogue: every resistance is a multiple of 100).
\* Variant: the Upper band scaled with the Lower factor.
ToleranceScaleUpperAsLower(r, tol, mode) ==
  IF mode = "Lower" THEN (r * (100 - tol)) \div 100
  ELSE IF mode = "Upper" THEN (r * (100 - tol)) \div 100
  ELSE r
ToleranceScale(r, tol, mode) ==
  IF mode = "Lower" THEN (r * (100 - tol)) \div 100
  ELSE IF mode = "Upper" THEN (r * (100 + tol)) \div 100
  ELSE r

\* -------------------------------------------- get_line_data, get_dc_line_data
LinesData(nline) ==
  [line_names |-> Zeros(nline), line_R |-> Zeros(nline), C_line_bus |-> ZeroMatrix(nline)]
DcLinesData(ndcline) ==
  [dc_line_names |-> Zeros(ndcline), dc_line_R |-> Zeros(ndcline),
   dc_line_impedance_tolerance |-> Zeros(ndcline),
   C_dc_line_bus |-> ZeroMatrix(ndcline), dc_F |-> Zeros(ndcline), dc_T |-> Zeros(ndcline)]

Lines ==
  {[name |-> "line", bus_from |-> f, bus_to |-> t, R |-> ty.R,
    R_corrected |-> ty.R_corrected, tolerance |-> ty.tolerance] :
     f \in BusRefs, t \in BusRefs, ty \in LineTypes}
\* The first failing `bus_dict[...]` lookup of a two-terminal device.
FirstUnmapped(elm) == IF Mapped(elm.bus_from) THEN elm.bus_to ELSE elm.bus_from
\* Variant: a device with both terminals on one bus is refused as well.
BothMappedNoLoop(elm) ==
  Mapped(elm.bus_from) /\ Mapped(elm.bus_to) /\ elm.bus_from # elm.bus_to
BothMapped(elm) == Mapped(elm.bus_from) /\ Mapped(elm.bus_to)

\* One iteration of the loop of get_line_data.
LineStep ==
  /\ builder = "get_line_data" /\ pc = "devices" /\ k < count.lines
  /\ \E e \in Lines :
       LET elm == [e EXCEPT !.name = <<"line", k>>] IN
       /\ circuit' = [circuit EXCEPT !.lines = Append(@, elm)]
       /\ IF BothMapped(elm)
          THEN LET f == bus_dict[elm.bus_from]
                   t == bus_dict[elm.bus_to]
                   r0 == ResistanceBase(elm, apply_temperature)
                   r1 == ToleranceScale(r0, elm.tolerance, branch_tolerance_mode)
               IN
               /\ data' = [data EXCEPT !.line_names[k] = elm.name,
                                       !.line_R[k] = r1,
                                       !.C_line_bus = SetEntry(SetEntry(@, k, f), k, t)]
               /\ k' = k + 1
               /\ UNCHANGED <<pc, error>>
          ELSE /\ pc' = "aborted"
               /\ error' = KeyError(builder, k, FirstUnmapped(elm))
               /\ UNCHANGED <<data, k>>
  /\ UNCHANGED <<kvars, ovars, run, builder, count, apply_temperature, branch_tolerance_mode,
                 Vbus, logger, bus_types, result>>

\* `return nc` of get_line_data.
LineReturn ==
  /\ builder = "get_line_data" /\ pc = "devices" /\ k = count.lines
  /\ result' = Return(result, builder, data)
  /\ pc' = "done"
  /\ UNCHANGED <<kvars, ovars, run, builder, k, count, circuit, apply_temperature, branch_tolerance_mode,
                 Vbus, logger, bus_types, data, error>>

\* One iteration of the loop of get_dc_line_data.
DcLineStep ==
  /\ builder = "get_dc_line_data" /\ pc = "devices" /\ k < count.dc_lines
  /\ \E e \in Lines :
       LET elm == [e EXCEPT !.name = <<"dc_line", k>>] IN
       /\ circuit' = [circuit EXCEPT !.dc_lines = Append(@, elm)]
       /\ IF BothMapped(elm)
          THEN LET f == bus_dict[elm.bus_from]
                   t == bus_dict[elm.bus_to]
                   r0 == ResistanceBase(elm, apply_temperature)
                   r1 == ToleranceScale(r0, elm.tolerance, branch_tolerance_mode)
               IN
               /\ data' = [data EXCEPT !.dc_line_names[k] = elm.name,
                                       !.dc_line_R[k] = r1,
                                       !.dc_line_impedance_tolerance[k] = elm.tolerance,
                                       !.C_dc_line_bus = SetEntry(SetEntry(@, k, f), k, t),
                                       !.dc_F[k] = f,
                                       !.dc_T[k] = t]
               /\ k' = k + 1
               /\ UNCHANGED <<pc, error>>
          ELSE /\ pc' = "aborted"
               /\ error' = KeyError(builder, k, FirstUnmapped(elm))
               /\ UNCHANGED <<data, k>>
  /\ UNCHANGED <<kvars, ovars, run, builder, count, apply_temperature, branch_tolerance_mode,
                 Vbus, logger, bus_types, result>>

\* `return nc` of get_dc_line_data.
DcLineReturn ==
  /\ builder = "get_dc_line_data" /\ pc = "devices" /\ k = count.dc_lines
  /\ result' = Return(result, builder, data)
  /\ pc' = "done"
  /\ UNCHANGED <<kvars, ovars, run, builder, k, count, circuit, apply_temperature, branch_tolerance_mode,
                 Vbus, logger, bus_types, data, error>>

Transformers ==
  {[name |-> "tr", bus_from |-> f, bus_to |-> t, R |-> ty.R,
    control_mode |-> ty.control_mode, vset |-> ty.vset] :
     f \in BusRefs, t \in BusRefs, ty \in TransformerTypes}
VscConverters ==
  {[name |-> "vsc", bus_from |-> f, bus_to |-> t, R1 |-> ty.R1,
    control_mode |-> ty.control_mode, Vac_set |-> ty.Vac_set, Vdc_set |-> ty.Vdc_set] :
     f \in BusRefs, t \in BusRefs, ty \in VscTypes}

\* ------------------------------------------ get_transformer_data, get_vsc_data
TransformerData(ntr) ==
  [tr_names |-> Zeros(ntr), tr_R |-> Zeros(ntr), C_tr_bus |-> ZeroMatrix(ntr),
   tr_vset |-> Zeros(ntr), tr_control_mode |-> Zeros(ntr)]
VscData(nvsc) ==
  [vsc_names |-> Zeros(nvsc), vsc_R1 |-> Zeros(nvsc), vsc_Vac_set |-> Zeros(nvsc),
   vsc_Vdc_set |-> Zeros(nvsc), vsc_control_mode |-> Zeros(nvsc), C_vsc_bus |-> ZeroMatrix(nvsc)]

\* One iteration of the loop of get_transformer_data.
TransformerStep ==
  /\ builder = "get_transformer_data" /\ pc = "devices" /\ k < count.transformers2w
  /\ \E e \in Transformers :
       LET elm == [e EXCEPT !.name = <<"tr", k>>] IN
       /\ circuit' = [circuit EXCEPT !.transformers2w = Append(@, elm)]
       /\ IF BothMapped(elm)
          THEN LET f == bus_dict[elm.bus_from]
                   t == bus_dict[elm.bus_to]
               IN
               /\ data' = [data EXCEPT !.tr_names[k] = elm.name,
                                       !.tr_R[k] = elm.R,
                                       !.C_tr_bus = SetEntry(SetEntry(@, k, f), k, t),
                                       !.tr_vset[k] = elm.vset,
                                       !.tr_control_mode[k] = elm.control_mode]
               /\ k' = k + 1
               /\ UNCHANGED <<pc, error>>
          ELSE /\ pc' = "aborted"
               /\ error' = KeyError(builder, k, FirstUnmapped(elm))
               /\ UNCHANGED <<data, k>>
  /\ UNCHANGED <<kvars, ovars, run, builder, count, apply_temperature, branch_tolerance_mode,
                 Vbus, logger, bus_types, result>>

\* `return data` of get_transformer_data.
TransformerReturn ==
  /\ builder = "get_transformer_data" /\ pc = "devices" /\ k = count.transformers2w
  /\ result' = Return(result, builder, data)
  /\ pc' = "done"
  /\ UNCHANGED <<kvars, ovars, run, builder, k, count, circuit, apply_temperature, branch_tolerance_mode,
                 Vbus, logger, bus_types, data, error>>

\* One iteration of the loop of get_vsc_data.
VscStep ==
  /\ builder = "get_vsc_data" /\ pc = "devices" /\ k < count.vsc_converters
  /\ \E e \in VscConverters :
       LET elm == [e EXCEPT !.name = <<"vsc", k>>] IN
       /\ circuit' = [circuit EXCEPT !.vsc_converters = Append(@, elm)]
       /\ IF BothMapped(elm)
          THEN LET f == bus_dict[elm.bus_from]
                   t == bus_dict[elm.bus_to]
               IN
               /\ data' = [data EXCEPT !.vsc_names[k] = elm.name,
                                       !.vsc_R1[k] = elm.R1,
                                       !.vsc_Vac_set[k] = elm.Vac_set,
                                       !.vsc_Vdc_set[k] = elm.Vdc_set,
                                       !.vsc_control_mode[k] = elm.control_mode,
                                       !.C_vsc_bus = SetEntry(SetEntry(@, k, f), k, t)]
               /\ k' = k + 1
               /\ UNCHANGED <<pc, error>>
          ELSE /\ pc' = "aborted"
               /\ error' = KeyError(builder, k, FirstUnmapped(elm))
               /\ UNCHANGED <<data, k>>
  /\ UNCHANGED <<kvars, ovars, run, builder, count, apply_temperature, branch_tolerance_mode,
                 Vbus, logger, bus_types, result>>

\* `return nc` of get_vsc_data.
VscReturn ==
  /\ builder = "get_vsc_data" /\ pc = "devices" /\ k = count.vsc_converters
  /\ result' = Return(result, builder, data)
  /\ pc' = "done"
  /\ UNCHANGED <<kvars, ovars, run, builder, k, count, circuit, apply_temperature, branch_tolerance_mode,
                 Vbus, logger, bus_types, data, error>>

\* --------------------------------------------------------------- get_hvdc_data
HvdcData(nhvdc) ==
  [hvdc_names |-> Zeros(nhvdc), hvdc_active |-> Zeros(nhvdc),
   C_hvdc_bus_f |-> ZeroMatrix(nhvdc), C_hvdc_bus_t |-> ZeroMatrix(nhvdc)]

HvdcLines == [name : {"hvdc"}, bus_from : BusRefs, bus_to : BusRefs, active : BOOLEAN]

\* `if elm.active: bus_types[f] = PV; bus_types[t] = PV`
\* Variant: only the from-side is reclassified.
HvdcBusTypesFromOnly(bt, f, t, active) == IF active THEN [bt EXCEPT ![f] = "PV"] ELSE bt
HvdcBusTypes(bt, f, t, active) ==
  IF active THEN [[bt EXCEPT ![f] = "PV"] EXCEPT ![t] = "PV"] ELSE bt


\* One iteration of the loop of get_hvdc_data.
HvdcStep ==
  /\ builder = "get_hvdc_data" /\ pc = "devices" /\ k < count.hvdc_lines
  /\ \E e \in HvdcLines :
       LET elm == [e EXCEPT !.name = <<"hvdc", k>>] IN
       /\ circuit' = [circuit EXCEPT !.hvdc_lines = Append(@, elm)]
       /\ IF BothMapped(elm)
          THEN LET f == bus_dict[elm.bus_from]
                   t == bus_dict[elm.bus_to]
               IN
               /\ data' = [data EXCEPT !.hvdc_names[k] = elm.name,
                                       !.hvdc_active[k] = elm.active,
                                       !.C_hvdc_bus_f = SetEntry(@, k, f),
                                       !.C_hvdc_bus_t = SetEntry(@, k, t)]
               /\ bus_types' = HvdcBusTypes(bus_types, f, t, elm.active)
               /\ k' = k + 1
               /\ UNCHANGED <<pc, error>>
          ELSE /\ pc' = "aborted"
               /\ error' = KeyError(builder, k, FirstUnmapped(elm))
               /\ UNCHANGED <<data, bus_types, k>>
  /\ UNCHANGED <<kvars, ovars, run, builder, count, apply_temperature, branch_tolerance_mode,
                 Vbus, logger, result>>

\* `return data` of get_hvdc_data.
HvdcReturn ==
  /\ builder = "get_hvdc_data" /\ pc = "devices" /\ k = count.hvdc_lines
  /\ result' = Return(result, builder, data)
  /\ pc' = "done"
  /\ UNCHANGED <<kvars, ovars, run, builder, k, count, circuit, apply_temperature, branch_tolerance_mode,
                 Vbus, logger, bus_types, data, error>>

\* ------------------------------------------------------------- get_branch_data
\* BranchData(nbr, nbus): zero-filled arrays, empty incidence matrices and the
\* container's own Vbus attribute. The container is built inside
\* get_branch_data from the two sizes alone, so the attribute is an array of
\* the container, never the buffer handed to the generator builders.
BranchData(nbr) ==
  [branch_names |-> Zeros(nbr), F |-> Zeros(nbr), T |-> Zeros(nbr),
   C_branch_bus_f |-> ZeroMatrix(nbr), C_branch_bus_t |-> ZeroMatrix(nbr),
   R |-> Zeros(nbr), control_mode |-> Zeros(nbr),
   Vbus |-> [ib \in BusIdx |-> <<Sentinel, 0>>]]

nbr == count.lines + count.transformers2w + count.vsc_converters + count.dc_lines

\* Stacked position of device i of each class: `i`, `ii = i + nline`,
\* `ii = i + nline + ntr`, `ii = i + nline + ntr + nvsc`.
LinePosition(ib) == ib
\* Variant: the transformer loop without its `+ nline` offset.
TransformerPositionNoOffset(ib) == ib
TransformerPosition(ib) == ib + count.lines
VscPosition(ib) == ib + count.lines + count.transformers2w
DcLinePosition(ib) == ib + count.lines + count.transformers2w + count.vsc_converters
\* The DC-line loop stores its resistance with `data.R[i]`, not `data.R[ii]`.
DcLineResistancePosition(ib) == ib

\* The generic part of every loop body: name, incidence rows, F and T at
\* the device's stacked position.
\* Variant: the two incidence matrices receive each other's column.
StackBranchSwapped(d, pos, elm, f, t) ==
  [d EXCEPT !.branch_names[pos] = elm.name,
            !.C_branch_bus_f = SetEntry(@, pos, t),
            !.C_branch_bus_t = SetEntry(@, pos, f),
            !.F[pos] = f,
            !.T[pos] = t]
StackBranch(d, pos, elm, f, t) ==
  [d EXCEPT !.branch_names[pos] = elm.name,
            !.C_branch_bus_f = SetEntry(@, pos, f),
            !.C_branch_bus_t = SetEntry(@, pos, t),
            !.F[pos] = f,
            !.T[pos] = t]

\* `if control_mode == v_to: data.Vbus[t] = vset elif control_mode == power_v_to: ...`
TransformerSeed(Vb, elm, f, t) ==
  IF elm.control_mode = "v_to" THEN [Vb EXCEPT ![t] = <<elm.vset, 0>>]
  ELSE IF elm.control_mode = "power_v_to" THEN [Vb EXCEPT ![t] = <<elm.vset, 0>>]
  ELSE Vb
\* `if control_mode == type_1_vac: data.Vbus[t] = Vac_set elif type_2_vdc: data.Vbus[f] = Vdc_set`
VscSeed(Vb, elm, f, t) ==
  IF elm.control_mode = "type_1_vac" THEN [Vb EXCEPT ![t] = <<elm.Vac_set, 0>>]
  ELSE IF elm.control_mode = "type_2_vdc" THEN [Vb EXCEPT ![f] = <<elm.Vdc_set, 0>>]
  ELSE Vb

\* One iteration of the line loop: the name is stored before the bus lookup.
BranchLineStep ==
  /\ builder = "get_branch_data" /\ pc = "lines" /\ k < count.lines
  /\ \E e \in Lines :
       LET elm == [e EXCEPT !.name = <<"line", k>>]
           ib == LinePosition(k)
           named == [data EXCEPT !.branch_names[ib] = elm.name]
       IN
       /\ circuit' = [circuit EXCEPT !.lines = Append(@, elm)]
       /\ IF BothMapped(elm)
          THEN LET f == bus_dict[elm.bus_from]
                   t == bus_dict[elm.bus_to]
                   r0 == ResistanceBase(elm, apply_temperature)
                   r1 == ToleranceScale(r0, elm.tolerance, branch_tolerance_mode)
               IN
               /\ data' = [StackBranch(named, ib, elm, f, t) EXCEPT !.R[ib] = r1]
               /\ k' = k + 1
               /\ UNCHANGED <<pc, error>>
          ELSE /\ pc' = "aborted"
               /\ error' = KeyError(builder, k, FirstUnmapped(elm))
               /\ data' = named
               /\ UNCHANGED k
  /\ UNCHANGED <<kvars, ovars, run, builder, count, apply_temperature, branch_tolerance_mode,
                 Vbus, logger, bus_types, result>>

\* The line loop is exhausted: on to the transformers.
BranchLinesEnd ==
  /\ builder = "get_branch_data" /\ pc = "lines" /\ k = count.lines
  /\ pc' = "transformers" /\ k' = 0
  /\ UNCHANGED <<kvars, ovars, run, builder, count, circuit, apply_temperature, branch_tolerance_mode,
                 Vbus, logger, bus_types, data, result, error>>

\* One iteration of the 2-winding transformer loop.
BranchTransformerStep ==
  /\ builder = "get_branch_data" /\ pc = "transformers" /\ k < count.transformers2w
  /\ \E e \in Transformers :
       LET elm == [e EXCEPT !.name = <<"tr", k>>]
           ii == TransformerPosition(k)
       IN
       /\ circuit' = [circuit EXCEPT !.transformers2w = Append(@, elm)]
       /\ IF BothMapped(elm)
          THEN LET f == bus_dict[elm.bus_from]
                   t == bus_dict[elm.bus_to]
               IN
               /\ data' = [StackBranch(data, ii, elm, f, t) EXCEPT
                             !.R[ii] = elm.R,
                             !.control_mode[ii] = elm.control_mode,
                             !.Vbus = TransformerSeed(@, elm, f, t)]
               /\ k' = k + 1
               /\ UNCHANGED <<pc, error>>
          ELSE /\ pc' = "aborted"
               /\ error' = KeyError(builder, k, FirstUnmapped(elm))
               /\ UNCHANGED <<data, k>>
  /\ UNCHANGED <<kvars, ovars, run, builder, count, apply_temperature, branch_tolerance_mode,
                 Vbus, logger, bus_types, result>>

\* The transformer loop is exhausted: on to the converters.
BranchTransformersEnd ==
  /\ builder = "get_branch_data" /\ pc = "transformers" /\ k = count.transformers2w
  /\ pc' = "vsc" /\ k' = 0
  /\ UNCHANGED <<kvars, ovars, run, builder, count, circuit, apply_temperature, branch_tolerance_mode,
                 Vbus, logger, bus_types, data, result, error>>

\* One iteration of the converter loop.
BranchVscStep ==
  /\ builder = "get_branch_data" /\ pc = "vsc" /\ k < count.vsc_converters
  /\ \E e \in VscConverters :
       LET elm == [e EXCEPT !.name = <<"vsc", k>>]
           ii == VscPosition(k)
       IN
       /\ circuit' = [circuit EXCEPT !.vsc_converters = Append(@, elm)]
       /\ IF BothMapped(elm)
          THEN LET f == bus_dict[elm.bus_from]
                   t == bus_dict[elm.bus_to]
               IN
               /\ data' = [StackBranch(data, ii, elm, f, t) EXCEPT
                             !.R[ii] = elm.R1,
                             !.control_mode[ii] = elm.control_mode,
                             !.Vbus = VscSeed(@, elm, f, t)]
               /\ k' = k + 1
               /\ UNCHANGED <<pc, error>>
          ELSE /\ pc' = "aborted"
               /\ error' = KeyError(builder, k, FirstUnmapped(elm))
               /\ UNCHANGED <<data, k>>
  /\ UNCHANGED <<kvars, ovars, run, builder, count, apply_temperature, branch_tolerance_mode,
                 Vbus, logger, bus_types, result>>

\* The converter loop is exhausted: on to the DC-lines.
BranchVscEnd ==
  /\ builder = "get_branch_data" /\ pc = "vsc" /\ k = count.vsc_converters
  /\ pc' = "dc_lines" /\ k' = 0
  /\ UNCHANGED <<kvars, ovars, run, builder, count, circuit, apply_temperature, branch_tolerance_mode,
                 Vbus, logger, bus_types, data, result, error>>

\* One iteration of the DC-line loop.
BranchDcLineStep ==
  /\ builder = "get_branch_data" /\ pc = "dc_lines" /\ k < count.dc_lines
  /\ \E e \in Lines :
       LET elm == [e EXCEPT !.name = <<"dc_line", k>>]
           ii == DcLinePosition(k)
           ir == DcLineResistancePosition(k)
       IN
       /\ circuit' = [circuit EXCEPT !.dc_lines = Append(@, elm)]
       /\ IF BothMapped(elm)
          THEN LET f == bus_dict[elm.bus_from]
                   t == bus_dict[elm.bus_to]
                   r0 == ResistanceBase(elm, apply_temperature)
                   r1 == ToleranceScale(r0, elm.tolerance, branch_tolerance_mode)
               IN
               /\ data' = [StackBranch(data, ii, elm, f, t) EXCEPT !.R[ir] = r1]
               /\ k' = k + 1
               /\ UNCHANGED <<pc, error>>
          ELSE /\ pc' = "aborted"
               /\ error' = KeyError(builder, k, FirstUnmapped(elm))
               /\ UNCHANGED <<data, k>>
  /\ UNCHANGED <<kvars, ovars, run, builder, count, apply_temperature, branch_tolerance_mode,
                 Vbus, logger, bus_types, result>>

\* `return data` of get_branch_data.
BranchReturn ==
  /\ builder = "get_branch_data" /\ pc = "dc_lines" /\ k = count.dc_lines
  /\ result' = Return(result, builder, data)
  /\ pc' = "done"
  /\ UNCHANGED <<kvars, ovars, run, builder, k, count, circuit, apply_temperature, branch_tolerance_mode,
                 Vbus, logger, bus_types, data, error>>

\* ------------------------------------------------------ calc_power_csr_numba
CAdd(a, b) == <<a[1] + b[1], a[2] + b[2]>>
CSub(a, b) == <<a[1] - b[1], a[2] - b[2]>>
CMul(a, b) == <<a[1] * b[1] - a[2] * b[2], a[1] * b[2] + a[2] * b[1]>>
CConj(a) == <<a[1], -a[2]>>
CZero == <<0, 0>>

\* `s += Yx[p] * V[Yj[p]]`
Accumulate(acc, yx, v, col, q) == CAdd(acc, CMul(yx[q], v[col[q]]))
\* `S[i] = V[i] * np.conj(s - I[i])`
\* Variant: the conjugate left out.
RowPowerNoConj(vi, acc, cur) == CMul(vi, CSub(acc, cur))
RowPower(vi, acc, cur) == CMul(vi, CConj(CSub(acc, cur)))
\* The accumulator a row task of the prange loop uses: `s` is assigned in
\* the loop body, so every iteration has its own.
\* Variant: one accumulator shared by every row task.
AccumulatorShared(r) == 0
AccumulatorOf(r) == r

\* The serial loop body for row r as one function: the inner loop from
\* cursor q with accumulator acc, then the stored value.
RECURSIVE SerialRow(_, _, _)
SerialRow(r, q, acc) ==
  IF q < Yp[r + 1] THEN SerialRow(r, q + 1, Accumulate(acc, Yx, V, Yj, q))
  ELSE RowPower(V[r], acc, I[r])
\* What the serial loop leaves in S.
SerialS == [r \in 0 .. n - 1 |-> SerialRow(r, Yp[r], CZero)]

\* Serial path: one pass of the inner loop.
SerialAccumulate ==
  /\ kpc = "serial" /\ i < n /\ p < Yp[i + 1]
  /\ s' = Accumulate(s, Yx, V, Yj, p)
  /\ p' = p + 1
  /\ UNCHANGED <<cvars, ovars, inputs, S, kpc, i, task>>

\* Serial path: the inner loop is over, the row is stored; the next row
\* starts with `s = complex(0, 0)` at `Yp[i]`.
SerialStore ==
  /\ kpc = "serial" /\ i < n /\ p >= Yp[i + 1]
  /\ S' = [S EXCEPT ![i] = RowPower(V[i], s, I[i])]
  /\ i' = i + 1
  /\ s' = CZero
  /\ p' = Yp[i + 1]
  /\ UNCHANGED <<cvars, ovars, inputs, kpc, task>>

\* Serial path: `return S`.
SerialReturn ==
  /\ kpc = "serial" /\ i = n
  /\ kpc' = "returned"
  /\ UNCHANGED <<cvars, ovars, inputs, S, i, p, s, task>>

\* Parallel path: row task r runs one pass of its inner loop.
ParallelAccumulate(r) ==
  /\ kpc = "parallel" /\ task[r].pc = "loop" /\ task[r].p < Yp[r + 1]
  /\ task' = [task EXCEPT ![AccumulatorOf(r)].s = Accumulate(@, Yx, V, Yj, task[r].p),
                          ![r].p = @ + 1]
  /\ UNCHANGED <<cvars, ovars, inputs, S, kpc, i, p, s>>

\* Parallel path: row task r stores its row and ends.
ParallelStore(r) ==
  /\ kpc = "parallel" /\ task[r].pc = "loop" /\ task[r].p >= Yp[r + 1]
  /\ S' = [S EXCEPT ![r] = RowPower(V[r], task[AccumulatorOf(r)].s, I[r])]
  /\ task' = [task EXCEPT ![r].pc = "done"]
  /\ UNCHANGED <<cvars, ovars, inputs, kpc, i, p, s>>

\* Parallel path: every row task has ended (the join), `return S`.
ParallelReturn ==
  /\ kpc = "parallel" /\ \A r \in DOMAIN task : task[r].pc = "done"
  /\ kpc' = "returned"
  /\ UNCHANGED <<cvars, ovars, inputs, S, i, p, s, task>>

\* Input vectors and matrices of the kernel.
YVals == {<<2, 0>>, <<3, 0>>}
VVals == {<<1, 0>>, <<1, 1>>}
\* I: no current injection, or a different complex current at every node.
IVecs(rows) ==
  {[r \in 0 .. rows - 1 |-> CZero], [r \in 0 .. rows - 1 |-> <<r + 1, 2>>]}
\* Row pointers of a CSR matrix of `rows` rows and `nnz` stored values.
RowPointers(rows, nnz) ==
  {yp \in [0 .. rows -> 0 .. nnz] :
     /\ yp[0] = 0 /\ yp[rows] = nnz
     /\ \A r \in 0 .. rows - 1 : yp[r] <= yp[r + 1]}

\* No dispatch object exists.
OpfIdle ==
  /\ nc = <<>> /\ opf = <<>> /\ opc = "idle"
  /\ problem = <<>> /\ nodal_restrictions = <<>> /\ island = 0

\* The compilation is not running.
CompileIdle ==
  /\ builder = "none" /\ pc = "done" /\ k = 0 /\ count = NoCounts
  /\ circuit = EmptyCircuit
  /\ apply_temperature = FALSE /\ branch_tolerance_mode = "Nominal"
  /\ Vbus = [b \in BusIdx |-> <<Sentinel, 0>>]
  /\ logger = <<>>
  /\ bus_types = [b \in BusIdx |-> "PQ"]
  /\ data = <<>> /\ result = NoResult /\ error = NoError
  /\ run = 1

\* The kernel is not running.
KernelIdle ==
  /\ n = 0 /\ Yp = <<>> /\ Yj = <<>> /\ Yx = <<>> /\ V = <<>> /\ I = <<>>
  /\ n_par = 0 /\ S = <<>> /\ kpc = "idle" /\ i = 0 /\ p = 0 /\ s = CZero /\ task = <<>>

\* Entry of calc_power_csr_numba: `assert n == V.shape[0]`,
\* `S = np.zeros(n)`, then the branch on `n < n_par`.
InitKernel ==
  /\ CompileIdle /\ OpfIdle
  /\ n \in 0 .. MaxN
  /\ \E nnz \in 0 .. MaxNnz :
       /\ Yp \in RowPointers(n, nnz)
       /\ Yj \in [0 .. nnz - 1 -> 0 .. n - 1]
       /\ Yx \in [0 .. nnz - 1 -> YVals]
  /\ V \in [0 .. n - 1 -> VVals]
  /\ I \in IVecs(n)
  /\ n_par \in {1, MaxN + 1}
  /\ S = [r \in 0 .. n - 1 |-> CZero]
  /\ kpc = IF n < n_par THEN "serial" ELSE "parallel"
  /\ i = 0 /\ p = Yp[0] /\ s = CZero
  /\ task = IF n < n_par THEN <<>>
            ELSE [r \in 0 .. n - 1 |-> [pc |-> "loop", p |-> Yp[r], s |-> CZero]]

NextKernel ==
  \/ SerialAccumulate
  \/ SerialStore
  \/ SerialReturn
  \/ \E r \in DOMAIN task : ParallelAccumulate(r)
  \/ \E r \in DOMAIN task : ParallelStore(r)
  \/ ParallelReturn

SpecKernel == InitKernel /\ [][NextKernel]_vars

\* ------------------------------------------------------------------- entries
FreshContext ==
  /\ circuit = [EmptyCircuit EXCEPT !.buses = bus_types]
  /\ Vbus = [ib \in BusIdx |-> <<Sentinel, 0>>]
  /\ logger = <<>>
  /\ result = NoResult
  /\ error = NoError
  /\ k = 0
  /\ run = 1

\* Entry: a fresh compilation context, generators first.
InitSeeding ==
  /\ builder = "get_generator_data" /\ pc = "devices"
  /\ \E ng \in 0 .. MaxDev, nb \in 0 .. MaxDev :
       /\ count = [NoCounts EXCEPT !.generators = ng, !.batteries = nb]
       /\ data = GeneratorData(ng)
  /\ apply_temperature = FALSE /\ branch_tolerance_mode = "Nominal"
  /\ bus_types = [ib \in BusIdx |-> "PQ"]
  /\ FreshContext

\* Entry: get_line_data on a circuit of up to MaxDev lines.
InitLines ==
  /\ builder = "get_line_data" /\ pc = "devices"
  /\ \E nl \in 0 .. MaxDev :
       /\ count = [NoCounts EXCEPT !.lines = nl]
       /\ data = LinesData(nl)
  /\ apply_temperature \in BOOLEAN /\ branch_tolerance_mode \in BranchImpedanceMode
  /\ bus_types = [ib \in BusIdx |-> "PQ"]
  /\ FreshContext

\* Entry: get_dc_line_data on a circuit of up to MaxDev DC-lines.
InitDcLines ==
  /\ builder = "get_dc_line_data" /\ pc = "devices"
  /\ \E nd \in 0 .. MaxDev :
       /\ count = [NoCounts EXCEPT !.dc_lines = nd]
       /\ data = DcLinesData(nd)
  /\ apply_temperature \in BOOLEAN /\ branch_tolerance_mode \in BranchImpedanceMode
  /\ bus_types = [ib \in BusIdx |-> "PQ"]
  /\ FreshContext

\* Entry: get_hvdc_data; bus_types holds whatever get_bus_data classified.
InitHvdc ==
  /\ builder = "get_hvdc_data" /\ pc = "devices"
  /\ \E nh \in 0 .. MaxDev :
       /\ count = [NoCounts EXCEPT !.hvdc_lines = nh]
       /\ data = HvdcData(nh)
  /\ apply_temperature = FALSE /\ branch_tolerance_mode = "Nominal"
  /\ bus_types \in [BusIdx -> BusModes]
  /\ FreshContext

\* Entry: get_branch_data on a circuit of up to MaxBr branches.
InitBranch ==
  /\ builder = "get_branch_data" /\ pc = "lines"
  /\ \E nl \in 0 .. MaxBr, nt \in 0 .. MaxBr, nv \in 0 .. MaxBr, nd \in 0 .. MaxBr :
       /\ nl + nt + nv + nd <= MaxBr
       /\ count = [NoCounts EXCEPT !.lines = nl, !.transformers2w = nt,
                               !.vsc_converters = nv, !.dc_lines = nd]
       /\ data = BranchData(nbr)
  /\ apply_temperature \in BOOLEAN /\ branch_tolerance_mode \in BranchImpedanceMode
  /\ bus_types = [ib \in BusIdx |-> "PQ"]
  /\ FreshContext

\* Entry: get_load_data, get_static_generator_data or get_shunt_data.
InitInjections ==
  /\ pc = "devices"
  /\ \E cnt \in 0 .. MaxDev :
       \/ /\ builder = "get_load_data"
          /\ count = [NoCounts EXCEPT !.loads = cnt] /\ data = LoadData(cnt)
       \/ /\ builder = "get_static_generator_data"
          /\ count = [NoCounts EXCEPT !.static_generators = cnt] /\ data = StaticGeneratorData(cnt)
       \/ /\ builder = "get_shunt_data"
          /\ count = [NoCounts EXCEPT !.shunts = cnt] /\ data = ShuntData(cnt)
  /\ apply_temperature = FALSE /\ branch_tolerance_mode = "Nominal"
  /\ bus_types = [ib \in BusIdx |-> "PQ"]
  /\ FreshContext

\* Entry: get_transformer_data or get_vsc_data.
InitWindings ==
  /\ pc = "devices"
  /\ \E cnt \in 0 .. MaxDev :
       \/ /\ builder = "get_transformer_data"
          /\ count = [NoCounts EXCEPT !.transformers2w = cnt] /\ data = TransformerData(cnt)
       \/ /\ builder = "get_vsc_data"
          /\ count = [NoCounts EXCEPT !.vsc_converters = cnt] /\ data = VscData(cnt)
  /\ apply_temperature = FALSE /\ branch_tolerance_mode = "Nominal"
  /\ bus_types = [ib \in BusIdx |-> "PQ"]
  /\ FreshContext

Init == (InitInjections \/ InitWindings \/ InitSeeding \/ InitLines \/ InitDcLines \/ InitHvdc \/ InitBranch) /\ KernelIdle /\ OpfIdle

Next ==
  \/ LoadStep
  \/ LoadReturn
  \/ StaticGeneratorStep
  \/ StaticGeneratorReturn
  \/ ShuntStep
  \/ ShuntReturn
  \/ TransformerStep
  \/ TransformerReturn
  \/ VscStep
  \/ VscReturn
  \/ GeneratorStep
  \/ GeneratorReturn
  \/ BatteryStep
  \/ BatteryReturn
  \/ SeedAgain
  \/ LineStep
  \/ LineReturn
  \/ DcLineStep
  \/ DcLineReturn
  \/ HvdcStep
  \/ HvdcReturn
  \/ BranchLineStep
  \/ BranchLinesEnd
  \/ BranchTransformerStep
  \/ BranchTransformersEnd
  \/ BranchVscStep
  \/ BranchVscEnd
  \/ BranchDcLineStep
  \/ BranchReturn

Spec == Init /\ [][Next]_vars

\* ---------------------------------------------------------- numpy floats
\* A float is <<numerator, denominator>> in lowest terms with a positive
\* denominator; denominator 0 is nan (<<0, 0>>) or an infinity (<<1, 0>>,
\* <<-1, 0>>): a numpy division by zero warns and carries on, it never raises.
RECURSIVE GCD(_, _)
GCD(a, b) == IF b = 0 THEN a ELSE GCD(b, a % b)
Abs(x) == IF x < 0 THEN -x ELSE x
Sign(x) == IF x < 0 THEN -1 ELSE IF x > 0 THEN 1 ELSE 0
Float(num, den) ==
  IF den = 0 THEN <<Sign(num), 0>>
  ELSE LET g == GCD(Abs(num), Abs(den))
       IN <<Sign(num) * Sign(den) * (Abs(num) \div g), Abs(den) \div g>>
NaN == Float(0, 0)
FZero == Float(0, 1)
FMul(a, b) == Float(a[1] * b[1], a[2] * b[2])
FDiv(a, b) == Float(a[1] * b[2], a[2] * b[1])
FAdd(a, b) ==
  IF a[2] # 0 /\ b[2] # 0 THEN Float(a[1] * b[2] + b[1] * a[2], a[2] * b[2])
  ELSE IF a = NaN \/ b = NaN \/ (a[2] = 0 /\ b[2] = 0 /\ a # b) THEN NaN
  ELSE IF a[2] = 0 THEN a ELSE b
\* `arr.sum()`, in index order.
RECURSIVE FSumTo(_, _)
FSumTo(arr, cnt) == IF cnt = 0 THEN FZero ELSE FAdd(FSumTo(arr, cnt - 1), arr[cnt - 1])
FSum(arr) == FSumTo(arr, Cardinality(DOMAIN arr))
\* `np.zeros(cnt)`
FZeros(cnt) == [j \in 0 .. cnt - 1 |-> FZero]
\* A bool array entering float arithmetic.
FBool(flag) == Float(IF flag THEN 1 ELSE 0, 1)

\* ------------------------------------------------------- OpfSimple.solve
\* `Pg_max = nc.generator_pmax / Sbase`
Pg_max(c) ==
  [g \in DOMAIN c.generator_pmax |-> FDiv(Float(c.generator_pmax[g], 1), Float(c.Sbase, 1))]
\* `Pavail = Pg_max * nc.generator_active`
Pavail(c) == [g \in DOMAIN c.generator_pmax |-> FMul(Pg_max(c)[g], FBool(c.generator_active[g]))]
\* `Gshare = Pavail / Pavail.sum()`
Gshare(c) == [g \in DOMAIN c.generator_pmax |-> FDiv(Pavail(c)[g], FSum(Pavail(c)))]
\* `Pl = (nc.load_active * nc.load_power.real) / Sbase`
Pl(c) ==
  [l \in DOMAIN c.load_power |->
     FDiv(FMul(FBool(c.load_active[l]), Float(c.load_power[l][1], 1)), Float(c.Sbase, 1))]
\* Variant: the dispatch is clipped to the generator's capacity.
PgClipped(c) ==
  [g \in DOMAIN c.generator_pmax |->
     LET share == FMul(FSum(Pl(c)), Gshare(c)[g])
         cap == Pavail(c)[g]
     IN IF share[2] # 0 /\ share[1] * cap[2] > cap[1] * share[2] THEN cap ELSE share]
\* `Pg = Pl.sum() * Gshare`
Pg(c) == [g \in DOMAIN c.generator_pmax |-> FMul(FSum(Pl(c)), Gshare(c)[g])]

\* OpfSimple.solve: the attributes it assigns.
Solve ==
  /\ opc = "solve"
  /\ opf' = [theta |-> FZeros(nc.nbus),
             Pg |-> Pg(nc),
             Pb |-> FZeros(nc.n_batt),
             Pl |-> Pl(nc),
             E |-> FZeros(nc.n_batt),
             load_shedding |-> FZeros(nc.n_ld),
             s_from |-> FZeros(nc.nbr),
             s_to |-> FZeros(nc.nbr),
             overloads |-> FZeros(nc.nbr),
             rating |-> [b \in DOMAIN nc.br_rates |->
                           FDiv(Float(nc.br_rates[b], 1), Float(nc.Sbase, 1))],
             nodal_restrictions |-> FZeros(nc.nbus)]
  /\ opc' = "solved"
  /\ UNCHANGED <<cvars, kvars, nc, problem, nodal_restrictions, island>>

\* ---- accessors of OpfSimple
\* Variant: `np.zeros_like(self.theta) * np.exp(-1j * self.theta)`
get_voltage_zeros_like(o) ==
  [b \in DOMAIN o.theta |-> [abs |-> FZero, angle |-> FMul(Float(-1, 1), o.theta[b])]]
\* `np.ones_like(self.theta) * np.exp(-1j * self.theta)`, in polar form.
get_voltage(o) ==
  [b \in DOMAIN o.theta |-> [abs |-> Float(1, 1), angle |-> FMul(Float(-1, 1), o.theta[b])]]
get_overloads(o) == o.overloads
get_loading(o) == [b \in DOMAIN o.s_from |-> FDiv(o.s_from[b], o.rating[b])]
\* `array * self.numerical_circuit.Sbase`
TimesSbase(arr, c) == [j \in DOMAIN arr |-> FMul(arr[j], Float(c.Sbase, 1))]
get_branch_power(o, c) == TimesSbase(o.s_from, c)
get_battery_power(o, c) == TimesSbase(o.Pb, c)
get_battery_energy(o, c) == TimesSbase(o.E, c)
get_generator_power(o, c) == TimesSbase(o.Pg, c)
get_load_shedding(o, c) == TimesSbase(o.load_shedding, c)
get_load_power(o, c) == TimesSbase(o.Pl, c)
get_shadow_prices(o) == o.nodal_restrictions

\* ---- inputs of the dispatch
Capacities == {0, 50, 100}
LoadPowers == {<<90, 30>>, <<200, 0>>}
Sbases == {100}
BranchRates == {0, 80}

\* No LP problem is being formulated.
NoProblem == problem = <<>> /\ nodal_restrictions = <<>> /\ island = 0

\* OpfSimple(numerical_circuit): an instance with nothing solved yet.
InitSolve ==
  /\ CompileIdle /\ KernelIdle /\ NoProblem
  /\ \E ng \in 0 .. MaxDev, nl \in 0 .. MaxDev, nbus \in 1 .. MaxN, nb \in {0, 1} :
       \E pmax \in [0 .. ng - 1 -> Capacities], gact \in [0 .. ng - 1 -> BOOLEAN],
          lact \in [0 .. nl - 1 -> BOOLEAN], lpow \in [0 .. nl - 1 -> LoadPowers],
          sb \in Sbases, rate \in BranchRates :
         nc = [nbus |-> nbus, nbr |-> nbus - 1, n_ctrl_gen |-> ng, n_batt |-> nb, n_ld |-> nl,
               Sbase |-> sb,
               generator_pmax |-> pmax, generator_active |-> gact,
               load_active |-> lact, load_power |-> lpow,
               br_rates |-> [b \in 0 .. nbus - 2 |-> rate]]
  /\ opf = <<>> /\ opc = "solve"

NextOpf ==
  \/ Solve

SpecOpf == InitSolve /\ [][NextOpf]_vars

\* ------------------------------------------------------ LP expressions
\* The LpVariables of a problem over circuit c: <<array name, index>>.
LpVars(c) ==
  ({"Pg"} \X (0 .. c.n_ctrl_gen - 1)) \cup ({"Pb"} \X (0 .. c.n_batt - 1))
  \cup ({"LSlack"} \X (0 .. c.n_ld - 1)) \cup ({"theta"} \X (0 .. c.nbus - 1))
  \cup ({"FSlack1", "FSlack2"} \X (0 .. c.nbr - 1))
\* An LpAffineExpression: a coefficient per variable and a constant.
Const(c, x) == [coef |-> [v \in LpVars(c) |-> 0], const |-> x]
Var(c, v) == [coef |-> [w \in LpVars(c) |-> IF w = v THEN 1 ELSE 0], const |-> 0]
EAdd(a, b) == [coef |-> [v \in DOMAIN a.coef |-> a.coef[v] + b.coef[v]], const |-> a.const + b.const]
EScale(x, a) == [coef |-> [v \in DOMAIN a.coef |-> x * a.coef[v]], const |-> x * a.const]
ESub(a, b) == EAdd(a, EScale(-1, b))
\* The array of the variables of one name, and an array of numbers as expressions.
VarArray(c, name, cnt) == [j \in 0 .. cnt - 1 |-> Var(c, <<name, j>>)]
ConstArray(c, arr) == [j \in DOMAIN arr |-> Const(c, arr[j])]
\* Arrays are indexed from 0.
Size(arr) == Cardinality(DOMAIN arr)
\* `arr[idx]` with an index array.
Take(arr, idx) == [j \in DOMAIN idx |-> arr[idx[j]]]
\* `mat[np.ix_(rows, cols)]` and `mat[rows, :]`.
SubMatrix(mat, rows, cols) == [r \in DOMAIN rows |-> [q \in DOMAIN cols |-> mat[rows[r]][cols[q]]]]
Rows(mat, rows) == [r \in DOMAIN rows |-> mat[rows[r]]]
Transpose(mat, nrows) == [q \in 0 .. nrows - 1 |-> [r \in DOMAIN mat |-> mat[r][q]]]
\* The elements of a set of indices in increasing order, as an index array.
Sorted(set) ==
  [j \in 0 .. Cardinality(set) - 1 |-> CHOOSE x \in set : Cardinality({y \in set : y < x}) = j]
\* lpDot(mat, arr): the matrix-vector product over expressions.
RECURSIVE DotTo(_, _, _, _)
DotTo(c, row, arr, cnt) ==
  IF cnt = 0 THEN Const(c, 0)
  ELSE EAdd(DotTo(c, row, arr, cnt - 1), EScale(row[cnt - 1], arr[cnt - 1]))
lpDot(c, mat, arr) == [r \in DOMAIN mat |-> DotTo(c, mat[r], arr, Size(arr))]
\* lpAddRestrictions2(problem, lhs, rhs, name, op): one restriction per
\* element, named name_1, name_2, ...; returns the array of restrictions.
lpAddRestrictions2(lhs, rhs, name, op) ==
  [j \in DOMAIN lhs |-> [name |-> <<name, j + 1>>, lhs |-> lhs[j], op |-> op, rhs |-> rhs[j]]]
\* The restrictions of an array, appended to the problem in index order.
Added(prob, arr) == prob \o [j \in 1 .. Size(arr) |-> arr[j - 1]]

\* ------------------------------------------------- set_fix_generation
\* Variant: `np.where(enabled_for_dispatch == True)[0]`
WhereTrue(flags) == Sorted({g \in DOMAIN flags : flags[g] = TRUE})
\* `np.where(enabled_for_dispatch == False)[0]`
WhereFalse(flags) == Sorted({g \in DOMAIN flags : flags[g] = FALSE})

SetFixGeneration ==
  /\ opc = "set_fix_generation"
  /\ LET idx == WhereFalse(nc.enabled_for_dispatch) IN
     problem' = Added(problem,
                      lpAddRestrictions2(Take(VarArray(nc, "Pg", nc.n_ctrl_gen), idx),
                                         Take(ConstArray(nc, nc.P_fix), idx),
                                         <<"fixed_generation">>, "="))
  /\ opc' = "add_dc_nodal_power_balance"
  /\ UNCHANGED <<cvars, kvars, nc, opf, nodal_restrictions, island>>

\* ----------------------------------------------- get_power_injections
\* `P = lpDot(C_bus_gen.transpose(), Pg); P += lpDot(C_bus_bat.transpose(), Pb);
\*  P -= lpDot(C_bus_load.transpose(), Pl - LSlack)`
get_power_injections(c) ==
  LET Pgen == lpDot(c, Transpose(c.C_bus_gen, c.nbus), VarArray(c, "Pg", c.n_ctrl_gen))
      Pbat == lpDot(c, Transpose(c.C_bus_bat, c.nbus), VarArray(c, "Pb", c.n_batt))
      served == [l \in 0 .. c.n_ld - 1 |-> ESub(Const(c, c.Pl[l]), Var(c, <<"LSlack", l>>))]
      Pload == lpDot(c, Transpose(c.C_bus_load, c.nbus), served)
  IN [b \in 0 .. c.nbus - 1 |-> ESub(EAdd(Pgen[b], Pbat[b]), Pload[b])]

\* ----------------------------------------- add_dc_nodal_power_balance
\* numerical_circuit.compute(): one calculation input per island, an island
\* being a maximal set of buses joined by branches. Buses b and b+1 are
\* joined where c.linked[b] holds; every branch has susceptance 1.
IslandOf(c, b) == Cardinality({j \in 0 .. b - 1 : ~c.linked[j]})
CalculationInput(c, isl) ==
  LET original_bus_idx == Sorted({b \in 0 .. c.nbus - 1 : IslandOf(c, b) = isl})
      last == Size(original_bus_idx) - 1
  IN [original_bus_idx |-> original_bus_idx,
      ref |-> Sorted({j \in 0 .. last : c.slack[original_bus_idx[j]]}),
      pqpv |-> Sorted({j \in 0 .. last : ~c.slack[original_bus_idx[j]]}),
      Ybus_imag |->
        [r \in 0 .. last |-> [q \in 0 .. last |->
           IF r = q THEN -((IF r > 0 THEN 1 ELSE 0) + (IF r < last THEN 1 ELSE 0))
           ELSE IF r = q + 1 \/ q = r + 1 THEN 1 ELSE 0]]]
compute(c) == [isl \in 0 .. IslandOf(c, c.nbus - 1) |-> CalculationInput(c, isl)]

\* An unassigned entry of `np.empty(nbus, dtype=object)`.
None == [name |-> <<"None">>]
\* `arr[idx] = vals` with an index array.
Assign(arr, idx, vals) ==
  [b \in DOMAIN arr |->
     IF \E j \in DOMAIN idx : idx[j] = b THEN vals[CHOOSE j \in DOMAIN idx : idx[j] = b]
     ELSE arr[b]]
\* Variant: the island is formulated whether it has a reference or not.
HasReferenceAlways(calc_inpt) == TRUE
\* `if len(calc_inpt.ref) > 0:`
HasReference(calc_inpt) == Size(calc_inpt.ref) > 0

\* Entry: `calculation_inputs = numerical_circuit.compute()`,
\* `nodal_restrictions = np.empty(numerical_circuit.nbus, dtype=object)`.
NodalBalanceEntry ==
  /\ opc = "add_dc_nodal_power_balance"
  /\ nodal_restrictions' = [b \in 0 .. nc.nbus - 1 |-> None]
  /\ island' = 0
  /\ opc' = "islands"
  /\ UNCHANGED <<cvars, kvars, nc, opf, problem>>

\* One iteration of the loop over the islands.
NodalBalanceIsland ==
  /\ opc = "islands" /\ island < Size(compute(nc))
  /\ LET calc_inpt == compute(nc)[island]
         P == get_power_injections(nc)
         theta == VarArray(nc, "theta", nc.nbus)
     IN
     IF HasReference(calc_inpt)
     THEN LET bus_original_idx == calc_inpt.original_bus_idx
              P_island == Take(P, bus_original_idx)
              theta_island == Take(theta, bus_original_idx)
              B_island == calc_inpt.Ybus_imag
              pqpv == calc_inpt.pqpv
              vd == calc_inpt.ref
              balance_pqpv ==
                lpAddRestrictions2(lpDot(nc, SubMatrix(B_island, pqpv, pqpv), Take(theta_island, pqpv)),
                                   Take(P_island, pqpv),
                                   <<"Nodal_power_balance_pqpv_is", island>>, "=")
              balance_vd ==
                lpAddRestrictions2(lpDot(nc, Rows(B_island, vd), theta_island),
                                   Take(P_island, vd),
                                   <<"Nodal_power_balance_vd_is", island>>, "=")
              theta_zero ==
                lpAddRestrictions2(Take(theta_island, vd),
                                   ConstArray(nc, [j \in DOMAIN vd |-> 0]),
                                   <<"Theta_vd_zero_is", island>>, "=")
          IN
          /\ problem' = Added(Added(Added(problem, balance_pqpv), balance_vd), theta_zero)
          /\ nodal_restrictions' =
               Assign(Assign(nodal_restrictions, Take(bus_original_idx, pqpv), balance_pqpv),
                      Take(bus_original_idx, vd), balance_vd)
     ELSE UNCHANGED <<problem, nodal_restrictions>>
  /\ island' = island + 1
  /\ UNCHANGED <<cvars, kvars, nc, opf, opc>>

\* `return nodal_restrictions`
NodalBalanceReturn ==
  /\ opc = "islands" /\ island = Size(compute(nc))
  /\ opc' = "add_branch_loading_restriction"
  /\ UNCHANGED <<cvars, kvars, nc, opf, problem, nodal_restrictions, island>>

\* ------------------------------------ add_branch_loading_restriction
AddBranchLoadingRestriction ==
  /\ opc = "add_branch_loading_restriction"
  /\ LET theta == VarArray(nc, "theta", nc.nbus)
         theta_f == Take(theta, nc.F)
         theta_t == Take(theta, nc.T)
         load_f == [j \in 0 .. nc.nbr - 1 |-> EScale(nc.Bseries[j], ESub(theta_f[j], theta_t[j]))]
         load_t == [j \in 0 .. nc.nbr - 1 |-> EScale(nc.Bseries[j], ESub(theta_t[j], theta_f[j]))]
         rating == ConstArray(nc, nc.rating)
         limit1 == [j \in 0 .. nc.nbr - 1 |-> EAdd(rating[j], Var(nc, <<"FSlack1", j>>))]
         limit2 == [j \in 0 .. nc.nbr - 1 |-> EAdd(rating[j], Var(nc, <<"FSlack2", j>>))]
     IN problem' =
          Added(Added(problem, lpAddRestrictions2(load_f, limit1, <<"from_to_branch_rate">>, "<=")),
                lpAddRestrictions2(load_t, limit2, <<"to_from_branch_rate">>, "<="))
  /\ opc' = "formulated"
  /\ UNCHANGED <<cvars, kvars, nc, opf, nodal_restrictions, island>>

\* ---- inputs of the formulation
Demands == {1, 3}
FixedPowers == {2}
\* A circuit of nbus buses in a row, with its generators, loads and
\* batteries spread over the buses in turn.
LpCircuits ==
  UNION {
    {[nbus |-> nbus, linked |-> linked, slack |-> slack,
      nbr |-> Size(Sorted({b \in DOMAIN linked : linked[b]})),
      F |-> Sorted({b \in DOMAIN linked : linked[b]}),
      T |-> [j \in DOMAIN Sorted({b \in DOMAIN linked : linked[b]}) |->
               Sorted({b \in DOMAIN linked : linked[b]})[j] + 1],
      Bseries |-> [j \in DOMAIN Sorted({b \in DOMAIN linked : linked[b]}) |-> 1],
      rating |-> [j \in DOMAIN Sorted({b \in DOMAIN linked : linked[b]}) |-> 1],
      n_ctrl_gen |-> Size(en), enabled_for_dispatch |-> en, P_fix |-> pfix,
      C_bus_gen |-> [g \in DOMAIN en |-> [b \in 0 .. nbus - 1 |-> IF b = g % nbus THEN 1 ELSE 0]],
      n_batt |-> nb,
      C_bus_bat |-> [g \in 0 .. nb - 1 |-> [b \in 0 .. nbus - 1 |-> IF b = 0 THEN 1 ELSE 0]],
      n_ld |-> Size(dem), Pl |-> dem,
      C_bus_load |-> [l \in DOMAIN dem |-> [b \in 0 .. nbus - 1 |-> IF b = l % nbus THEN 1 ELSE 0]]] :
      linked \in [0 .. nbus - 2 -> BOOLEAN], slack \in [0 .. nbus - 1 -> BOOLEAN],
      en \in UNION {[0 .. ng - 1 -> BOOLEAN] : ng \in 0 .. MaxDev},
      pfix \in UNION {[0 .. ng - 1 -> FixedPowers] : ng \in 0 .. MaxDev},
      dem \in UNION {[0 .. nl - 1 -> Demands] : nl \in 0 .. MaxDev},
      nb \in {0, 1}} : nbus \in 1 .. MaxN}

\* A caller starts to formulate the LP of a circuit.
InitFormulate ==
  /\ CompileIdle /\ KernelIdle
  /\ nc \in {c \in LpCircuits : Size(c.P_fix) = c.n_ctrl_gen}
  /\ opf = <<>> /\ NoProblem
  /\ opc = "set_fix_generation"

NextLp ==
  \/ SetFixGeneration
  \/ NodalBalanceEntry
  \/ NodalBalanceIsland
  \/ NodalBalanceReturn
  \/ AddBranchLoadingRestriction

SpecLp == InitFormulate /\ [][NextLp]_vars

\* ===================================================================== claims
Last(seq) == seq[Len(seq)]
\* Generators and batteries in enumeration order.
Enumerated == circuit.generators \o circuit.batteries
\* Positions in Enumerated of the devices connected to bus index ib (a dense index).
DevicesAt(ib) ==
  {j \in 1 .. Len(Enumerated) :
     Mapped(Enumerated[j].bus) /\ bus_dict[Enumerated[j].bus] = ib}
FirstAt(ib) == Enumerated[CHOOSE j \in DevicesAt(ib) : \A j2 \in DevicesAt(ib) : j <= j2]
Seeding == builder \in {"get_generator_data", "get_battery_data"}

\* C1: after any sequence of generators and batteries on a buffer that
\* started at the sentinel, the seed of every targeted bus is the Vset of
\* the first device enumerated at that bus (first wins).
C1_FirstDeviceWins ==
  Seeding => \A ib \in BusIdx : DevicesAt(ib) # {} => Vbus[ib] = <<FirstAt(ib).Vset, 0>>

Branching == builder = "get_branch_data"
\* The devices of a list whose loop body ran to its end.
Stacked(list) == {j \in 1 .. Len(list) : BothMapped(list[j])}
\* Stacked position the claims give device j (1-based) of each class.
ClaimedLine(j) == j - 1
ClaimedTransformer(j) == count.lines + j - 1
ClaimedVsc(j) == count.lines + count.transformers2w + j - 1
ClaimedDcLine(j) == count.lines + count.transformers2w + count.vsc_converters + j - 1
\* Every stacked device with the position claimed for it.
StackedAt ==
  {<<ClaimedLine(j), circuit.lines[j]>> : j \in Stacked(circuit.lines)}
  \cup {<<ClaimedTransformer(j), circuit.transformers2w[j]>> : j \in Stacked(circuit.transformers2w)}
  \cup {<<ClaimedVsc(j), circuit.vsc_converters[j]>> : j \in Stacked(circuit.vsc_converters)}
  \cup {<<ClaimedDcLine(j), circuit.dc_lines[j]>> : j \in Stacked(circuit.dc_lines)}
OneHot(row, col) == \A c \in BusIdx : row[c] = IF c = col THEN 1 ELSE 0

\* C2: the unified array has nline+ntr+nvsc+ndcline entries; lines, then
\* transformers, then converters, then DC-lines; every stacked device's
\* name, F and T sit at its own position, and a position no device has
\* reached yet is still unwritten.
C2_StackingOrder ==
  Branching =>
    /\ DOMAIN data.branch_names =
         0 .. count.lines + count.transformers2w + count.vsc_converters + count.dc_lines - 1
    /\ \A pe \in StackedAt :
         /\ data.branch_names[pe[1]] = pe[2].name
         /\ data.F[pe[1]] = bus_dict[pe[2].bus_from]
         /\ data.T[pe[1]] = bus_dict[pe[2].bus_to]
    /\ \A pos \in DOMAIN data.branch_names :
         (pc # "aborted" /\ pos \notin {pe[1] : pe \in StackedAt}) =>
           /\ data.branch_names[pos] = 0
           /\ \A c \in BusIdx : data.C_branch_bus_f[pos][c] = 0 /\ data.C_branch_bus_t[pos][c] = 0

\* A line followed by a DC-line, and a transformer followed by a converter.
C2_Witness ==
  /\ Branching /\ pc = "done" /\ builder \in DOMAIN result
  /\ count.transformers2w = 1 /\ count.vsc_converters = 1
  /\ data.branch_names = (0 :> <<"tr", 0>> @@ 1 :> <<"vsc", 0>>)
  /\ data.F[0] # data.F[1]

\* ---- resistance correction
\* value = base scaled by the tolerance mode, base chosen by apply_temperature.
IsCorrected(value, elm) ==
  LET base == IF apply_temperature THEN elm.R_corrected ELSE elm.R IN
  CASE branch_tolerance_mode = "Lower" -> value * 100 = base * (100 - elm.tolerance)
    [] branch_tolerance_mode = "Upper" -> value * 100 = base * (100 + elm.tolerance)
    [] branch_tolerance_mode = "Nominal" -> value = base

\* C3: in the unified branch array every DC-line's corrected resistance is
\* at the DC-line's stacked position nline+ntr+nvsc+i.
C3_DcLineResistanceStacked ==
  (Branching /\ pc = "done") =>
    \A j \in 1 .. Len(circuit.dc_lines) :
      IsCorrected(data.R[ClaimedDcLine(j)], circuit.dc_lines[j])

\* C4: get_line_data and get_dc_line_data store, for every device, its base
\* resistance (R_corrected under apply_temperature, else R) scaled once by
\* the tolerance mode; R=0.1, tol=10 gives 0.09 / 0.11 / 0.1.
C4_PerClassResistance ==
  /\ builder = "get_line_data" =>
       \A j \in Stacked(circuit.lines) :
         /\ IsCorrected(data.line_R[j - 1], circuit.lines[j])
         /\ (circuit.lines[j].R = 1000 /\ circuit.lines[j].tolerance = 10 /\ ~apply_temperature) =>
              data.line_R[j - 1] =
                CASE branch_tolerance_mode = "Lower" -> 900
                  [] branch_tolerance_mode = "Upper" -> 1100
                  [] branch_tolerance_mode = "Nominal" -> 1000
  /\ builder = "get_dc_line_data" =>
       \A j \in Stacked(circuit.dc_lines) :
         /\ IsCorrected(data.dc_line_R[j - 1], circuit.dc_lines[j])
         /\ (circuit.dc_lines[j].R = 1000 /\ circuit.dc_lines[j].tolerance = 10 /\ ~apply_temperature) =>
              data.dc_line_R[j - 1] =
                CASE branch_tolerance_mode = "Lower" -> 900
                  [] branch_tolerance_mode = "Upper" -> 1100
                  [] branch_tolerance_mode = "Nominal" -> 1000

\* Two DC-lines under temperature correction and the Upper band.
C4_Witness ==
  /\ builder = "get_dc_line_data" /\ pc = "done"
  /\ apply_temperature /\ branch_tolerance_mode = "Upper"
  /\ Len(circuit.dc_lines) = 2
  /\ circuit.dc_lines[1].R_corrected = 1200 /\ data.dc_line_R[0] = 1320
  /\ circuit.dc_lines[2].R_corrected = 3300 /\ data.dc_line_R[1] = 3960

\* ---- HVDC
\* C5: every endpoint of an active HVDC link processed so far is PV,
\* whatever its type was and whatever links came after.
C5_ActiveHvdcEndpointsPV ==
  builder = "get_hvdc_data" =>
    \A j \in Stacked(circuit.hvdc_lines) :
      circuit.hvdc_lines[j].active =>
        /\ bus_types[bus_dict[circuit.hvdc_lines[j].bus_from]] = "PV"
        /\ bus_types[bus_dict[circuit.hvdc_lines[j].bus_to]] = "PV"

\* An active link between a slack and a PQ bus, then an inactive link on them.
C5_Witness ==
  /\ builder = "get_hvdc_data" /\ pc = "done"
  /\ circuit.buses = (0 :> "REF" @@ 1 :> "PQ")
  /\ Len(circuit.hvdc_lines) = 2
  /\ circuit.hvdc_lines[1].active /\ ~circuit.hvdc_lines[2].active
  /\ circuit.hvdc_lines[1].bus_from = "A" /\ circuit.hvdc_lines[1].bus_to = "B"
  /\ circuit.hvdc_lines[2].bus_from = "B" /\ circuit.hvdc_lines[2].bus_to = "A"
  /\ bus_types = (0 :> "PV" @@ 1 :> "PV")

RefsRead ==
  {d.bus : d \in Range(circuit.loads) \cup Range(circuit.static_generators)
               \cup Range(circuit.shunts) \cup Range(circuit.generators)
               \cup Range(circuit.batteries)}
  \cup UNION {{d.bus_from, d.bus_to} :
         d \in Range(circuit.lines) \cup Range(circuit.transformers2w)
               \cup Range(circuit.vsc_converters) \cup Range(circuit.dc_lines)
               \cup Range(circuit.hvdc_lines)}

RECURSIVE NonzeroSum(_, _)
NonzeroSum(a, b) ==
  IF a >= b THEN <<0, 0>>
  ELSE LET y == Yx[a]
           v == V[Yj[a]]
           rest == NonzeroSum(a + 1, b)
       IN <<y[1] * v[1] - y[2] * v[2] + rest[1], y[1] * v[2] + y[2] * v[1] + rest[2]>>
\* v * conj(z)
TimesConj(v, z) == <<v[1] * z[1] + v[2] * z[2], v[2] * z[1] - v[1] * z[2]>>

\* C9: calc_power_csr_numba returns S[r] = V[r] * conj(sum over the stored
\* nonzeros of row r of Yx*V[Yj] - I[r]) for every row r; a row without
\* nonzeros gives V[r] * conj(-I[r]); Y = diag(2, 3), V = [1, 1], I = [0, 0]
\* gives S = [2, 3].
C9_PowerInjection ==
  kpc = "returned" =>
    /\ DOMAIN S = 0 .. n - 1
    /\ \A r \in 0 .. n - 1 :
         LET sum == NonzeroSum(Yp[r], Yp[r + 1]) IN
         /\ S[r] = TimesConj(V[r], <<sum[1] - I[r][1], sum[2] - I[r][2]>>)
         /\ Yp[r] = Yp[r + 1] => S[r] = TimesConj(V[r], <<-I[r][1], -I[r][2]>>)
    /\ ( /\ n = 2 /\ Yp = (0 :> 0 @@ 1 :> 1 @@ 2 :> 2) /\ Yj = (0 :> 0 @@ 1 :> 1)
         /\ Yx = (0 :> <<2, 0>> @@ 1 :> <<3, 0>>)
         /\ V = (0 :> <<1, 0>> @@ 1 :> <<1, 0>>) /\ I = (0 :> <<0, 0>> @@ 1 :> <<0, 0>>) )
       => S = (0 :> <<2, 0>> @@ 1 :> <<3, 0>>)

\* Y = diag(2, 3), V = [1, 1], I = [0, 0] on the serial path.
C9_Witness ==
  /\ kpc = "returned" /\ n = 2 /\ n < n_par
  /\ Yp = (0 :> 0 @@ 1 :> 1 @@ 2 :> 2) /\ Yj = (0 :> 0 @@ 1 :> 1)
  /\ Yx = (0 :> <<2, 0>> @@ 1 :> <<3, 0>>)
  /\ V = (0 :> <<1, 0>> @@ 1 :> <<1, 0>>) /\ I = (0 :> <<0, 0>> @@ 1 :> <<0, 0>>)
  /\ S = (0 :> <<2, 0>> @@ 1 :> <<3, 0>>)

\* C10: whatever the interleaving of the row tasks, the parallel path
\* returns what the serial loop computes on the same inputs; a step of the
\* parallel path never changes an input, and changes at most one entry of
\* S, the one of the row task that takes the step and ends with it.
C10_ParallelEqualsSerial ==
  /\ [](kpc = "returned" => S = SerialS)
  /\ [][ kpc = "parallel" =>
           /\ inputs' = inputs
           /\ \A r \in 0 .. n - 1 :
                S'[r] # S[r] =>
                  /\ task[r].pc = "loop" /\ task'[r].pc = "done"
                  /\ \A q \in 0 .. n - 1 : q # r => S'[q] = S[q] /\ task'[q] = task[q] ]_vars

\* Two coupled rows on the parallel path, with a current injection.
C10_Witness ==
  /\ kpc = "returned" /\ n = 2 /\ n >= n_par
  /\ Yp = (0 :> 0 @@ 1 :> 1 @@ 2 :> 2) /\ Yj = (0 :> 1 @@ 1 :> 0)
  /\ V[0] # V[1] /\ I[0] # <<0, 0>>
  /\ \A r \in 0 .. 1 : task[r].pc = "done"
  /\ S = SerialS /\ S[0] # S[1]

\* ---- frame of the DC-line loop
\* C16: once get_branch_data has run its four loops, position i still holds
\* line i's own corrected resistance, and the positions of transformers and
\* converters hold their own R and R1: the DC-line loop has modified the
\* resistance of no other device.
C16_DcLinesLeaveOtherResistances ==
  (Branching /\ pc = "done") =>
    /\ \A j \in 1 .. Len(circuit.lines) :
         IsCorrected(data.R[ClaimedLine(j)], circuit.lines[j])
    /\ \A j \in 1 .. Len(circuit.transformers2w) :
         data.R[ClaimedTransformer(j)] = circuit.transformers2w[j].R
    /\ \A j \in 1 .. Len(circuit.vsc_converters) :
         data.R[ClaimedVsc(j)] = circuit.vsc_converters[j].R1

\* ---- control-mode voltage seeding
\* <<order, bus index, setpoint>> of every stacked branch whose control mode
\* regulates the voltage of one of its buses, in stacking order.
SeedWrites ==
  {<<j, bus_dict[circuit.transformers2w[j].bus_to], circuit.transformers2w[j].vset>> :
     j \in {q \in Stacked(circuit.transformers2w) :
              circuit.transformers2w[q].control_mode \in {"v_to", "power_v_to"}}}
  \cup {<<Len(circuit.transformers2w) + j,
          bus_dict[circuit.vsc_converters[j].bus_to], circuit.vsc_converters[j].Vac_set>> :
          j \in {q \in Stacked(circuit.vsc_converters) :
                   circuit.vsc_converters[q].control_mode = "type_1_vac"}}
  \cup {<<Len(circuit.transformers2w) + j,
          bus_dict[circuit.vsc_converters[j].bus_from], circuit.vsc_converters[j].Vdc_set>> :
          j \in {q \in Stacked(circuit.vsc_converters) :
                   circuit.vsc_converters[q].control_mode = "type_2_vdc"}}
SeedWritesAt(ib) == {w \in SeedWrites : w[2] = ib}
LastSeedWrite(ib) == CHOOSE w \in SeedWritesAt(ib) : \A w2 \in SeedWritesAt(ib) : w2[1] <= w[1]

\* C17: in get_branch_data the seed of a bus in the buffer shared with the
\* generator and battery builders is the setpoint of the last stacked
\* transformer (v_to, power_v_to: to-bus, vset) or converter (type_1_vac:
\* to-bus, Vac_set; type_2_vdc: from-bus, Vdc_set) that regulates it, no
\* warning is logged, and a bus no such branch regulates keeps its seed.
C17_ControlModeSeedsSharedBuffer ==
  Branching =>
    /\ logger = <<>>
    /\ \A ib \in BusIdx :
         Vbus[ib] = IF SeedWritesAt(ib) = {} THEN <<Sentinel, 0>>
                    ELSE <<LastSeedWrite(ib)[3], 0>>

\* ---- seeding by the sentinel test
\* Devices at bus index ib whose Vset is not the sentinel magnitude.
OffSentinelAt(ib) == {j \in DevicesAt(ib) : Enumerated[j].Vset # Sentinel}
FirstOffSentinelAt(ib) ==
  CHOOSE j \in OffSentinelAt(ib) : \A j2 \in OffSentinelAt(ib) : j <= j2
\* The seed the sentinel test leaves at bus index ib.
FinalSeed(ib) ==
  IF OffSentinelAt(ib) = {} THEN Sentinel ELSE Enumerated[FirstOffSentinelAt(ib)].Vset
\* Devices that find, on a fresh buffer, a seed off the sentinel and not their Vset.
FirstRunConflicts ==
  {j \in 1 .. Len(Enumerated) :
     /\ Mapped(Enumerated[j].bus)
     /\ LET ib == bus_dict[Enumerated[j].bus] IN
        /\ OffSentinelAt(ib) # {} /\ FirstOffSentinelAt(ib) < j
        /\ Enumerated[j].Vset # FinalSeed(ib)}
\* Devices that find, on the seeded buffer, a seed off the sentinel and not their Vset.
RerunConflicts ==
  {j \in 1 .. Len(Enumerated) :
     /\ Mapped(Enumerated[j].bus)
     /\ LET ib == bus_dict[Enumerated[j].bus] IN
        FinalSeed(ib) # Sentinel /\ Enumerated[j].Vset # FinalSeed(ib)}

\* C18: after get_generator_data then get_battery_data on a fresh buffer the
\* seed of a bus is the Vset of its first device whose Vset is not 1.0, or
\* 1.0 when there is none; a later run of the two builders over the seeded
\* buffer never changes a seed, while it appends warnings again.
C18_SentinelSeedingIdempotent ==
  Seeding =>
    /\ (pc = "done" \/ run > 1) => \A ib \in BusIdx : Vbus[ib] = <<FinalSeed(ib), 0>>
    /\ pc = "done" =>
         /\ Len(logger) = Cardinality(FirstRunConflicts) + (run - 1) * Cardinality(RerunConflicts)
         /\ FirstRunConflicts \subseteq RerunConflicts

\* Generators with Vset 1.0 then 1.02 at bus A and a battery with 1.05 there,
\* run twice: the seed is 1.02 after both runs, one warning in the first run
\* and two in the second.
C18_Witness ==
  /\ builder = "get_battery_data" /\ pc = "done" /\ run = 2
  /\ Len(circuit.generators) = 2 /\ Len(circuit.batteries) = 1
  /\ \A j \in 1 .. 3 : Enumerated[j].bus = "A"
  /\ Enumerated[1].Vset = 100 /\ Enumerated[2].Vset = 102 /\ Enumerated[3].Vset = 105
  /\ Vbus[0] = <<102, 0>>
  /\ Len(logger) = 3

\* ---- heuristic dispatch
RECURSIVE IntSumTo(_, _)
IntSumTo(arr, cnt) == IF cnt = 0 THEN 0 ELSE IntSumTo(arr, cnt - 1) + arr[cnt - 1]
\* Total active load and total available capacity, in physical units.
TotalActiveLoad ==
  IntSumTo([l \in DOMAIN nc.load_power |->
              IF nc.load_active[l] THEN nc.load_power[l][1] ELSE 0], nc.n_ld)
AvailableCapacity(g) == IF nc.generator_active[g] THEN nc.generator_pmax[g] ELSE 0
TotalAvailable == IntSumTo([g \in DOMAIN nc.generator_pmax |-> AvailableCapacity(g)], nc.n_ctrl_gen)
\* a <= b on finite values.
Leq(a, b) == a[1] * b[2] <= b[1] * a[2]

\* C11: after the heuristic solve, get_generator_power gives generator g the
\* total active load times capacity_g*active_g over the sum of
\* capacity*active, in physical units; an inactive generator gets 0;
\* capacities [100, 50], both active, and load 90 give [60, 30].
C11_ProportionalShare ==
  opc = "solved" =>
    /\ DOMAIN get_generator_power(opf, nc) = 0 .. nc.n_ctrl_gen - 1
    /\ \A g \in 0 .. nc.n_ctrl_gen - 1 :
         /\ ~nc.generator_active[g] => get_generator_power(opf, nc)[g] = Float(0, 1)
         /\ TotalAvailable # 0 =>
              get_generator_power(opf, nc)[g] =
                Float(TotalActiveLoad * AvailableCapacity(g), TotalAvailable)
    /\ ( /\ nc.generator_pmax = (0 :> 100 @@ 1 :> 50)
         /\ nc.generator_active = (0 :> TRUE @@ 1 :> TRUE)
         /\ TotalActiveLoad = 90 ) =>
         get_generator_power(opf, nc) = (0 :> Float(60, 1) @@ 1 :> Float(30, 1))

\* C12: after the heuristic solve every accessor returns an array over its
\* devices, every bus has angle 0 and voltage of magnitude 1 and angle 0, and
\* branch power, overloads, battery power, battery energy, load shedding and
\* shadow prices are 0 for every branch, battery, load and bus.
C12_RicherOutputsZero ==
  opc = "solved" =>
    /\ opf.theta = [b \in 0 .. nc.nbus - 1 |-> Float(0, 1)]
    /\ get_voltage(opf) =
         [b \in 0 .. nc.nbus - 1 |-> [abs |-> Float(1, 1), angle |-> Float(0, 1)]]
    /\ get_branch_power(opf, nc) = [b \in 0 .. nc.nbr - 1 |-> Float(0, 1)]
    /\ get_overloads(opf) = [b \in 0 .. nc.nbr - 1 |-> Float(0, 1)]
    /\ get_battery_power(opf, nc) = [b \in 0 .. nc.n_batt - 1 |-> Float(0, 1)]
    /\ get_battery_energy(opf, nc) = [b \in 0 .. nc.n_batt - 1 |-> Float(0, 1)]
    /\ get_load_shedding(opf, nc) = [l \in 0 .. nc.n_ld - 1 |-> Float(0, 1)]
    /\ get_shadow_prices(opf) = [b \in 0 .. nc.nbus - 1 |-> Float(0, 1)]
    /\ DOMAIN get_loading(opf) = 0 .. nc.nbr - 1
    /\ DOMAIN get_generator_power(opf, nc) = 0 .. nc.n_ctrl_gen - 1
    /\ DOMAIN get_load_power(opf, nc) = 0 .. nc.n_ld - 1

\* Two buses joined by a branch, a battery, generators and loads, solved.
C12_Witness ==
  /\ opc = "solved" /\ nc.nbus = 2 /\ nc.nbr = 1 /\ nc.n_batt = 1
  /\ nc.n_ctrl_gen = 2 /\ nc.n_ld = 2 /\ TotalActiveLoad = 290
  /\ get_voltage(opf)[1].abs = Float(1, 1)
  /\ get_generator_power(opf, nc)[0] # Float(0, 1)

\* C19: when the total available capacity is positive, the heuristic solve
\* dispatches exactly the total active load and sheds none, with no clipping:
\* an active generator of positive capacity stays within its capacity if and
\* only if the total active load does not exceed the total available capacity.
C19_DispatchesLoadUnclipped ==
  (opc = "solved" /\ TotalAvailable > 0) =>
    /\ FSum(get_generator_power(opf, nc)) = Float(TotalActiveLoad, 1)
    /\ \A l \in 0 .. nc.n_ld - 1 : get_load_shedding(opf, nc)[l] = Float(0, 1)
    /\ \A g \in 0 .. nc.n_ctrl_gen - 1 :
         (nc.generator_active[g] /\ nc.generator_pmax[g] > 0) =>
           (Leq(get_generator_power(opf, nc)[g], Float(nc.generator_pmax[g], 1))
              <=> TotalActiveLoad <= TotalAvailable)

\* Capacities 100 and 50 against a load of 200: both generators above capacity.
C19_Witness ==
  /\ opc = "solved"
  /\ nc.generator_pmax = (0 :> 100 @@ 1 :> 50)
  /\ nc.generator_active = (0 :> TRUE @@ 1 :> TRUE)
  /\ TotalActiveLoad = 200
  /\ get_generator_power(opf, nc) = (0 :> Float(400, 3) @@ 1 :> Float(200, 3))

\* ---- LP formulation
\* The restrictions of the problem whose name starts with one of the kinds.
Named(kinds) == {j \in 1 .. Len(problem) : problem[j].name[1][1] \in kinds}
Fixed == Named({"fixed_generation"})
\* The variables a restriction involves.
Involved(con) == {v \in LpVars(nc) : con.lhs.coef[v] # 0 \/ con.rhs.coef[v] # 0}

\* C15: set_fix_generation adds the equality Pg_g = P_fix_g for exactly the
\* generators that are not enabled for dispatch, in index order, and nothing
\* that involves a dispatchable generator; with none it adds nothing.
C15_FixedGenerationOnly ==
  IF opc = "set_fix_generation" THEN problem = <<>>
  ELSE /\ \A g \in 0 .. nc.n_ctrl_gen - 1 :
            IF nc.enabled_for_dispatch[g]
            THEN \A j \in Fixed : <<"Pg", g>> \notin Involved(problem[j])
            ELSE Cardinality({j \in Fixed :
                                /\ problem[j].lhs = Var(nc, <<"Pg", g>>)
                                /\ problem[j].op = "="
                                /\ problem[j].rhs = Const(nc, nc.P_fix[g])}) = 1
       /\ Cardinality(Fixed) =
            Cardinality({g \in 0 .. nc.n_ctrl_gen - 1 : ~nc.enabled_for_dispatch[g]})
       /\ \A j \in Fixed : j <= Cardinality(Fixed)

\* A dispatchable generator followed by a non-dispatchable one: one equality.
C15_Witness ==
  /\ opc = "add_dc_nodal_power_balance"
  /\ nc.enabled_for_dispatch = (0 :> TRUE @@ 1 :> FALSE)
  /\ Len(problem) = 1
  /\ problem[1].lhs = Var(nc, <<"Pg", 1>>) /\ problem[1].rhs = Const(nc, 2)

\* The buses of an island, and whether one of them is a reference bus.
IslandBuses(isl) == {b \in 0 .. nc.nbus - 1 : IslandOf(nc, b) = isl}
Referenced(isl) == \E b \in IslandBuses(isl) : nc.slack[b]
\* Susceptance between two buses of the circuit, by bus index.
Links(b) ==
  (IF b > 0 /\ nc.linked[b - 1] THEN 1 ELSE 0) + (IF b < nc.nbus - 1 /\ nc.linked[b] THEN 1 ELSE 0)
Susceptance(r, q) ==
  IF r = q THEN -Links(r)
  ELSE IF (q = r + 1 /\ nc.linked[r]) \/ (r = q + 1 /\ nc.linked[q]) THEN 1 ELSE 0
\* Net injection at bus b: generation + battery - load + shedding.
Injection(b) ==
  [coef |-> [v \in LpVars(nc) |->
               CASE v[1] = "Pg" -> nc.C_bus_gen[v[2]][b]
                 [] v[1] = "Pb" -> nc.C_bus_bat[v[2]][b]
                 [] v[1] = "LSlack" -> nc.C_bus_load[v[2]][b]
                 [] OTHER -> 0],
   const |-> -IntSumTo([l \in 0 .. nc.n_ld - 1 |-> nc.C_bus_load[l][b] * nc.Pl[l]], nc.n_ld)]
\* Angle differences at bus b weighted by the susceptances to the buses of a set.
Flows(b, buses) ==
  [coef |-> [v \in LpVars(nc) |->
               IF v[1] = "theta" /\ v[2] \in buses THEN Susceptance(b, v[2]) ELSE 0],
   const |-> 0]
NodalKinds == {"Nodal_power_balance_pqpv_is", "Nodal_power_balance_vd_is", "Theta_vd_zero_is"}
\* The variables that belong to the buses of an island.
VarsOfIsland(isl) ==
  {v \in LpVars(nc) :
     \/ v[1] = "theta" /\ v[2] \in IslandBuses(isl)
     \/ v[1] = "Pg" /\ \E b \in IslandBuses(isl) : nc.C_bus_gen[v[2]][b] = 1
     \/ v[1] = "Pb" /\ \E b \in IslandBuses(isl) : nc.C_bus_bat[v[2]][b] = 1
     \/ v[1] = "LSlack" /\ \E b \in IslandBuses(isl) : nc.C_bus_load[v[2]][b] = 1}

\* C13: add_dc_nodal_power_balance returns, for an island with no reference
\* bus, no restriction at all and unset entries of nodal_restrictions; for an
\* island with a reference bus, one balance equation per non-slack bus over
\* the susceptances to the island's non-slack buses, one per slack bus over
\* the full island row, and the angle of every slack bus fixed to 0; the
\* restrictions of an island involve only variables of its own buses.
C13_PerIslandBalance ==
  opc \in {"add_branch_loading_restriction", "formulated"} =>
    /\ \A isl \in 0 .. IslandOf(nc, nc.nbus - 1) :
         ~Referenced(isl) =>
           /\ \A j \in Named(NodalKinds) : problem[j].name[1][2] # isl
           /\ \A b \in IslandBuses(isl) : nodal_restrictions[b] = None
    /\ \A b \in 0 .. nc.nbus - 1 :
         LET isl == IslandOf(nc, b)
             con == nodal_restrictions[b]
         IN Referenced(isl) =>
              /\ Cardinality({j \in Named(NodalKinds) : problem[j] = con}) = 1
              /\ con.name[1][2] = isl /\ con.op = "=" /\ con.rhs = Injection(b)
              /\ IF nc.slack[b]
                 THEN /\ con.name[1][1] = "Nodal_power_balance_vd_is"
                      /\ con.lhs = Flows(b, IslandBuses(isl))
                      /\ Cardinality({j \in Named({"Theta_vd_zero_is"}) :
                                        /\ problem[j].name[1][2] = isl
                                        /\ problem[j].lhs = Var(nc, <<"theta", b>>)
                                        /\ problem[j].op = "="
                                        /\ problem[j].rhs = Const(nc, 0)}) = 1
                 ELSE /\ con.name[1][1] = "Nodal_power_balance_pqpv_is"
                      /\ con.lhs = Flows(b, {q \in IslandBuses(isl) : ~nc.slack[q]})
    /\ Cardinality(Named(NodalKinds)) =
         Cardinality({b \in 0 .. nc.nbus - 1 : Referenced(IslandOf(nc, b))})
         + Cardinality({b \in 0 .. nc.nbus - 1 : Referenced(IslandOf(nc, b)) /\ nc.slack[b]})
    /\ \A j \in Named(NodalKinds) :
         Involved(problem[j]) \subseteq VarsOfIsland(problem[j].name[1][2])

\* Two separate buses, the first a reference bus with a generator and a load,
\* the second without reference: the first island alone is formulated.
C13_Witness ==
  /\ opc = "formulated" /\ nc.nbus = 2
  /\ nc.linked = (0 :> FALSE) /\ nc.slack = (0 :> TRUE @@ 1 :> FALSE)
  /\ nc.n_ctrl_gen = 2 /\ nc.n_ld = 2
  /\ nodal_restrictions[0] # None /\ nodal_restrictions[1] = None
  /\ Cardinality(Named(NodalKinds)) = 2

\* ---- feasibility of the formulation
\* The value of an expression under an assignment of the variables.
RECURSIVE TermsTo(_, _, _, _)
TermsTo(e, asg, name, cnt) ==
  IF cnt = 0 THEN 0
  ELSE TermsTo(e, asg, name, cnt - 1) + e.coef[<<name, cnt - 1>>] * asg[<<name, cnt - 1>>]
Value(e, asg) ==
  e.const + TermsTo(e, asg, "Pg", nc.n_ctrl_gen) + TermsTo(e, asg, "Pb", nc.n_batt)
  + TermsTo(e, asg, "LSlack", nc.n_ld) + TermsTo(e, asg, "theta", nc.nbus)
  + TermsTo(e, asg, "FSlack1", nc.nbr) + TermsTo(e, asg, "FSlack2", nc.nbr)
Satisfied(con, asg) ==
  IF con.op = "=" THEN Value(con.lhs, asg) = Value(con.rhs, asg)
  ELSE Value(con.lhs, asg) <= Value(con.rhs, asg)
\* Generation and load of the circuit, and a magnitude no variable of a
\* solution needs to exceed.
TotalGeneration == IntSumTo(nc.P_fix, nc.n_ctrl_gen)
TotalLoad == IntSumTo(nc.Pl, nc.n_ld)
Magnitude == TotalGeneration + TotalLoad
Assignment(pg, pb, ls, th, f1, f2) ==
  [v \in LpVars(nc) |->
     CASE v[1] = "Pg" -> pg[v[2]]
       [] v[1] = "Pb" -> pb[v[2]]
       [] v[1] = "LSlack" -> ls[v[2]]
       [] v[1] = "theta" -> th[v[2]]
       [] v[1] = "FSlack1" -> f1[v[2]]
       [] v[1] = "FSlack2" -> f2[v[2]]]
\* Restrictions that involve variables of the given arrays only.
Only(names) == {j \in 1 .. Len(problem) : \A v \in Involved(problem[j]) : v[1] \in names}
NoValues(cnt) == [j \in 0 .. cnt - 1 |-> 0]
\* There are values of Pg, Pb, LSlack within [0, demand], theta and
\* non-negative FSlack1, FSlack2 that satisfy every restriction of the
\* problem. A restriction is tested as soon as its variables have values.
Feasible ==
  \E th \in [0 .. nc.nbus - 1 -> -Magnitude .. Magnitude] :
    /\ \A j \in Only({"theta"}) :
         Satisfied(problem[j],
                   Assignment(NoValues(nc.n_ctrl_gen), NoValues(nc.n_batt), NoValues(nc.n_ld),
                              th, NoValues(nc.nbr), NoValues(nc.nbr)))
    /\ \E pg \in [0 .. nc.n_ctrl_gen - 1 -> -Magnitude .. Magnitude] :
         /\ \A j \in Only({"theta", "Pg"}) :
              Satisfied(problem[j],
                        Assignment(pg, NoValues(nc.n_batt), NoValues(nc.n_ld),
                                   th, NoValues(nc.nbr), NoValues(nc.nbr)))
         /\ \E pb \in [0 .. nc.n_batt - 1 -> -Magnitude .. Magnitude],
               ls \in {f \in [0 .. nc.n_ld - 1 -> 0 .. Magnitude] :
                         \A l \in DOMAIN f : f[l] <= nc.Pl[l]} :
              /\ \A j \in Only({"theta", "Pg", "Pb", "LSlack"}) :
                   Satisfied(problem[j],
                             Assignment(pg, pb, ls, th, NoValues(nc.nbr), NoValues(nc.nbr)))
              /\ \E f1 \in [0 .. nc.nbr - 1 -> 0 .. 2 * Magnitude],
                    f2 \in [0 .. nc.nbr - 1 -> 0 .. 2 * Magnitude] :
                   \A j \in 1 .. Len(problem) :
                     Satisfied(problem[j], Assignment(pg, pb, ls, th, f1, f2))

\* C14: whenever generation is below the total load, the formulated problem
\* (fixed generation, per-island nodal balance, both branch limits) has a
\* feasible assignment.
C14_AlwaysFeasible ==
  (opc = "formulated" /\ TotalGeneration < TotalLoad) => Feasible
====
